---- MODULE Spec2Model ----
(***************************************************************************)
(* Model of the configuration write-through path of probing-dl:            *)
(*   - the config store            (probing/core/src/config.rs)            *)
(*   - the extension registry and its dispatch loops                       *)
(*                                 (probing/core/src/core/extension.rs)    *)
(*   - the engine builder          (probing/core/src/core/engine.rs)       *)
(*   - the Python extension        (extensions/python/.../python.rs)       *)
(*                                                                         *)
(* Strings are sequences of tokens; a token stands for a fixed piece of    *)
(* text ("probing", ".", "test", ...).  The tokens are prefix-free, so     *)
(* starts_with, ends_with, slicing and the byte order of strings are the   *)
(* prefix, suffix, sub-sequence and lexicographic order of the token       *)
(* sequences.  The empty string is <<>>.                                   *)
(***************************************************************************)
EXTENDS Integers, Sequences, FiniteSets, TLC

(* ------------------------------ bounds --------------------------------- *)

\* largest number of extensions held by the registry
MaxExts == 2

\* largest number of entries held by the config store
MaxStore == 2

\* a thread calls no write of the config store once this many writes are
\* done or in progress
MaxWrites == 4

\* largest number of spans built or under construction
MaxSpans == 4

\* largest number of spans whose life is followed, and of operations on them
MaxLifeSpans == 2

MaxSpanOps == 5

\* largest number of handles of the engine
MaxHandles == 2

\* largest number of spans in the rows a span tree is built from
MaxTreeSpans == 3

\* largest number of calls of enable by concurrent tasks
MaxEnableCalls == 3

\* the calls of enable and async_query the tasks make on the handles of an
\* engine
MaxEngineCalls == 3

\* largest number of calls of initialize_engine
MaxBuilds == 1

\* largest number of register calls of the threads
MaxRegisters == 1

\* largest number of calls the threads begin, register included
MaxThreadCalls == 3

\* largest number of calls of the extension manager, of config::write, of
\* SQL-level SET and of config::set, remove and clear
MaxCalls == 2

\* largest number of calls of register outside a build
MaxRegistrations == 2

\* largest number of calls of the concurrent writers of one option
MaxLockstepCalls == 4

(* ------------------------------ state ---------------------------------- *)

VARIABLES
    EXTENSIONS,     \* the global registry: registry key -> extension
    CONFIG_STORE,   \* the global config store: key -> Ele
    engine_eem,     \* the engine handle's session config carries the manager
    reg_order,      \* registry keys in the order of their registration
    last,           \* the latest operation, its arguments and its result
    threads,        \* per thread: the stack of calls it is executing
    locks,          \* holders of the registry, engine and extension locks
    arcs,           \* the extension objects that the snapshots name
    calls,          \* history: the calls the threads have begun
    ConfigStore,    \* the map of config::store::CONFIG_STORE: key -> Ele
    store_last,     \* the latest ConfigStore operation and its result
    store_written,  \* history: key -> the value of its latest set
    store_threads,  \* per thread: the ConfigStore operation in progress
    store_lock,     \* holders of the RwLock of config::store::CONFIG_STORE
    store_hist,     \* history: per key, the writes applied and returned
    NEXT_TRACE_ID,  \* the trace id counter
    NEXT_SPAN_ID,   \* the span id counter
    spans,          \* the spans created so far, in order of completion
    span_threads,   \* per thread: the span constructor in progress
    span_last,      \* the latest operation on a span and its result
    trace_event,    \* the trace buffer, when present: its rows in order
    context,        \* the session context the engine handles share
    engines,        \* the engine handles: the plugin index of each
    engine_last,    \* the latest engine operation and its result
    builder,        \* the EngineBuilder::build in progress
    conv_last,      \* the latest conversion of an element and its result
    SPAN_STACK,     \* per thread: the stack of entered Python spans
    span_entered,   \* history: per thread, the spans entered and not exited
    dto_last,       \* the latest engine reply and the response made of it
    tree_last,      \* the latest trace rows, iteration order and span tree
    catalog,        \* the catalog "probe": schema name -> schema provider
    providers,      \* the schema providers created so far: their tables
    engine_tasks    \* per thread: the call of the engine in progress

\* the registry, the config store of config.rs and the engine handle
registry_vars == <<EXTENSIONS, CONFIG_STORE, engine_eem, reg_order, last>>

\* threads executing the dispatch of the extension manager
lock_vars == <<threads, locks, arcs, calls>>

\* the config store of config/store.rs
store_vars ==
    <<ConfigStore, store_last, store_written, store_threads, store_lock,
      store_hist>>

\* the tracing core
span_vars ==
    <<NEXT_TRACE_ID, NEXT_SPAN_ID, spans, span_threads, span_last,
      trace_event>>

\* the query engine
engine_vars == <<context, engines, engine_last, builder>>

\* the conversions of types/convert.rs
conv_vars == <<conv_last>>

\* the Python span stack, the query responses, the span tree of the web
\* client and the concurrent registration of table plugins
aux_vars ==
    <<SPAN_STACK, span_entered, dto_last, tree_last, catalog, providers,
      engine_tasks>>

vars ==
    <<registry_vars, lock_vars, store_vars, span_vars, engine_vars,
      conv_vars, aux_vars>>

(* ------------------------------ strings -------------------------------- *)

\* position of a token's text in byte order ("." < "/" < "E" < "T" < "c" ...)
TokenRank(t) ==
    CASE t = "."                   -> 1
      [] t = "/"                   -> 2
      [] t = "Extension"           -> 3
      [] t = "Test"                -> 4
      [] t = "callstack"           -> 5
      [] t = "crash_handler"       -> 6
      [] t = "default"             -> 7
      [] t = "eval"                -> 8
      [] t = "extension"           -> 9
      [] t = "key"                 -> 10
      [] t = "mode"                -> 11
      [] t = "my_ext_instance_key" -> 12
      [] t = "new_value"           -> 13
      [] t = "nosuch"              -> 14
      [] t = "option"              -> 15
      [] t = "port"                -> 16
      [] t = "probing"             -> 17
      [] t = "profiling"           -> 18
      [] t = "python"              -> 19
      [] t = "server"              -> 20
      [] t = "test"                -> 21
      [] t = "torch"               -> 22
      [] OTHER                      -> 23

\* str::to_lowercase on one token
LowerToken(t) ==
    CASE t = "Test"      -> "test"
      [] t = "Extension" -> "extension"
      [] OTHER           -> t

to_lowercase(s) == [i \in 1..Len(s) |-> LowerToken(s[i])]

starts_with(s, p) == Len(p) <= Len(s) /\ SubSeq(s, 1, Len(p)) = p

ends_with(s, p) ==
    Len(p) <= Len(s) /\ SubSeq(s, Len(s) - Len(p) + 1, Len(s)) = p

\* s[n..] for a prefix of n tokens
DropPrefix(s, n) == SubSeq(s, n + 1, Len(s))

\* str::trim_start_matches: removes the pattern as long as it is a prefix
RECURSIVE trim_start_matches(_, _)
trim_start_matches(s, p) ==
    IF p # <<>> /\ starts_with(s, p)
    THEN trim_start_matches(DropPrefix(s, Len(p)), p)
    ELSE s

\* byte-wise order of strings (Ord for String, the order of a BTreeMap)
RECURSIVE StrLt(_, _)
StrLt(a, b) ==
    IF b = <<>> THEN FALSE
    ELSE IF a = <<>> THEN TRUE
    ELSE IF a[1] = b[1] THEN StrLt(Tail(a), Tail(b))
    ELSE TokenRank(a[1]) < TokenRank(b[1])

\* the keys of a BTreeMap in iteration order
RECURSIVE SortedKeys(_)
SortedKeys(S) ==
    IF S = {} THEN <<>>
    ELSE LET m == CHOOSE x \in S : \A y \in S \ {x} : StrLt(x, y)
         IN  <<m>> \o SortedKeys(S \ {m})

(* ------------------------- results and options ------------------------- *)

\* Result::Ok(v)
Ok(v) == [ok |-> TRUE, err |-> "", val |-> v]

\* Result::Err(EngineError::<kind>(arg))
Err(kind, arg) == [ok |-> FALSE, err |-> kind, val |-> arg]

\* Option::None / Option::Some(v), Maybe::Nothing / Maybe::Just(v)
None == {}
Some(v) == {v}

\* the value of an Option that is Some
unwrap(opt) == CHOOSE v \in opt : TRUE

\* Ele::Text(s), the element a &str converts into
Text(s) == [t |-> "Text", v |-> s, b |-> FALSE, n |-> 0, h |-> 0]

\* the other variants of Ele.  An element is its variant t and its payload:
\* the text v, the boolean b or the integer n; a float is held as its
\* shortest decimal text, DataTime holds microseconds since the epoch.  The
\* payload x of I64 is held as two 32-bit words, x = h * 2^32 + n with
\* i32::MIN <= n <= i32::MAX, so that h = 0 exactly for the payloads that an
\* i32 holds, and n is x truncated to 32 bits
Nil == [t |-> "Nil", v |-> << >>, b |-> FALSE, n |-> 0, h |-> 0]
BOOL(x) == [t |-> "BOOL", v |-> << >>, b |-> x, n |-> 0, h |-> 0]
I32(x) == [t |-> "I32", v |-> << >>, b |-> FALSE, n |-> x, h |-> 0]
I64(x) == [t |-> "I64", v |-> << >>, b |-> FALSE, n |-> x, h |-> 0]
I64_wide(h, n) == [t |-> "I64", v |-> << >>, b |-> FALSE, n |-> n, h |-> h]
F32(x) == [t |-> "F32", v |-> x, b |-> FALSE, n |-> 0, h |-> 0]
F64(x) == [t |-> "F64", v |-> x, b |-> FALSE, n |-> 0, h |-> 0]
Url(s) == [t |-> "Url", v |-> s, b |-> FALSE, n |-> 0, h |-> 0]
DataTime(x) == [t |-> "DataTime", v |-> << >>, b |-> FALSE, n |-> x, h |-> 0]

\* i32::to_string, u64::to_string and "{x}" of an integer: decimal digits
int_to_string(x) == << ToString(x) >>

\* the two 16-bit limbs, low limb first, of the 32-bit word n read as an
\* unsigned number (n + 2^32 when n is negative)
limbs_unsigned(n) == << n % 65536, (n \div 65536) % 65536 >>

\* the two 16-bit limbs of |n|, for i32::MIN <= n <= i32::MAX
limbs_abs(n) ==
    IF n >= 0 THEN << n % 65536, n \div 65536 >>
    ELSE IF n % 65536 = 0 THEN << 0, 0 - (n \div 65536) >>
    ELSE << 65536 - (n % 65536), 0 - (n \div 65536) - 1 >>

\* the four 16-bit limbs, low limb first, of |h * 2^32 + n|
i64_limbs(h, n) ==
    IF h > 0 \/ (h = 0 /\ n >= 0)
    THEN IF n >= 0 THEN limbs_abs(n) \o limbs_abs(h)
         ELSE limbs_unsigned(n) \o limbs_abs(h - 1)
    ELSE IF n <= 0 THEN limbs_abs(n) \o limbs_abs(h)
         ELSE limbs_unsigned(0 - n) \o limbs_abs(h + 1)

\* the limbs divided by ten, from the high limb down: the quotient, low limb
\* first, and the remainder
RECURSIVE limbs_div10(_, _)
limbs_div10(limbs, rem) ==
    IF limbs = << >> THEN [q |-> << >>, r |-> rem]
    ELSE LET top == limbs[Len(limbs)]
             cur == rem * 65536 + top
             rest == limbs_div10(SubSeq(limbs, 1, Len(limbs) - 1), cur % 10)
         IN  [q |-> Append(rest.q, cur \div 10), r |-> rest.r]

\* the decimal digits of the number the limbs hold
RECURSIVE limbs_digits(_)
limbs_digits(limbs) ==
    LET d == limbs_div10(limbs, 0)
    IN  IF \A k \in 1..Len(d.q) : d.q[k] = 0 THEN ToString(d.r)
        ELSE limbs_digits(d.q) \o ToString(d.r)

\* i64::to_string of h * 2^32 + n
i64_to_string(h, n) ==
    << ( IF h < 0 \/ (h = 0 /\ n < 0) THEN "-" ELSE "" )
       \o limbs_digits(i64_limbs(h, n)) >>

\* two decimal digits
two_digits(x) == IF x < 10 THEN "0" \o ToString(x) ELSE ToString(x)

\* DateTime<Utc>::to_rfc3339 of UNIX_EPOCH + x microseconds, for the
\* instants of whole seconds within the first hour
to_rfc3339(x) ==
    LET secs == x \div 1000000
    IN  << "1970-01-01T00:" \o two_digits(secs \div 60) \o ":"
           \o two_digits(secs % 60) \o "+00:00" >>

\* impl Display for Ele
Display(ele) ==
    CASE ele.t = "Nil"      -> <<"nil">>
      [] ele.t = "BOOL"     -> IF ele.b THEN <<"true">> ELSE <<"false">>
      [] ele.t = "I32"      -> int_to_string(ele.n)
      [] ele.t = "I64"      -> i64_to_string(ele.h, ele.n)
      [] ele.t = "F32"      -> ele.v
      [] ele.t = "F64"      -> ele.v
      [] ele.t = "Text"     -> ele.v
      [] ele.t = "Url"      -> ele.v
      [] OTHER              -> to_rfc3339(ele.n)

\* impl FromEle for String
String_from_ele(ele) ==
    CASE ele.t = "Text"     -> Ok(ele.v)
      [] ele.t = "Url"      -> Ok(ele.v)
      [] ele.t = "BOOL"     -> Ok(IF ele.b THEN <<"True">> ELSE <<"False">>)
      [] ele.t = "I32"      -> Ok(int_to_string(ele.n))
      [] ele.t = "I64"      -> Ok(i64_to_string(ele.h, ele.n))
      [] ele.t = "F32"      -> Ok(ele.v)
      [] ele.t = "F64"      -> Ok(ele.v)
      [] ele.t = "DataTime" -> Ok(int_to_string(ele.n))
      [] OTHER              -> Ok(<<"nil">>)

\* EleExt::to_string_lossy: String::from_ele, "unknown" if it fails
to_string_lossy(ele) ==
    LET r == String_from_ele(ele)
    IN  IF r.ok THEN r.val ELSE <<"unknown">>

\* a native value handed to ConfigStore::set: its type ty and its payload;
\* a value that is an Ele already carries its variant t
Native(ty, v, b, n) ==
    [ty |-> ty, t |-> "", v |-> v, b |-> b, n |-> n, h |-> 0]

NativeEle(ele) ==
    [ty |-> "Ele", t |-> ele.t, v |-> ele.v, b |-> ele.b, n |-> ele.n,
     h |-> ele.h]

\* the native i64 h * 2^32 + n
Native_i64(h, n) ==
    [ty |-> "i64", t |-> "", v |-> << >>, b |-> FALSE, n |-> n, h |-> h]

\* impl From<T> for Ele, for the types ConfigStore::set documents
into(value) ==
    CASE value.ty = "str"    -> Text(value.v)
      [] value.ty = "String" -> Text(value.v)
      [] value.ty = "bool"   -> BOOL(value.b)
      [] value.ty = "i32"    -> I32(value.n)
      [] value.ty = "i64"    -> I64_wide(value.h, value.n)
      [] value.ty = "f32"    -> F32(value.v)
      [] value.ty = "f64"    -> F64(value.v)
      [] OTHER               -> [t |-> value.t, v |-> value.v,
                                 b |-> value.b, n |-> value.n,
                                 h |-> value.h]

\* impl<T: Into<Ele>> ToEle for T
to_ele(value) == into(value)

\* impl FromStr for Maybe<String>
Maybe_from_str(s) == IF s = <<>> THEN None ELSE Some(s)

\* impl From<Maybe<T>> for String
Maybe_to_string(m) == IF m = None THEN <<>> ELSE CHOOSE v \in m : TRUE

(* ----------------------------- extensions ------------------------------ *)

\* the values written by operations
Values == { <<>>, <<"new_value">> }

\* An extension is registered as Arc<Mutex<dyn EngineExtension>>: the record
\* of an extension holds the fields of the extension and poisoned, the flag
\* of its std::sync::Mutex, which is set when a thread panics with the
\* mutex locked and makes every later lock().unwrap() panic.

\* TestExtension::default(): one option, "option", initially "default"
TestExtension(n) ==
    [kind |-> "test", name |-> n,
     test_option |-> <<"default">>, crash_handler |-> None,
     monitoring |-> None, enabled |-> {}, disabled |-> None,
     poisoned |-> FALSE]

\* PythonExt::default(): the options crash_handler, monitoring, enabled and
\* disabled, all unset; enabled is the set of the keys of the map
PythonExt ==
    [kind |-> "python", name |-> <<"python">>,
     test_option |-> <<>>, crash_handler |-> None,
     monitoring |-> None, enabled |-> {}, disabled |-> None,
     poisoned |-> FALSE]

\* an extension whose handlers for "option" fail with PluginError
FailingExtension(n) ==
    [kind |-> "failing", name |-> n,
     test_option |-> <<>>, crash_handler |-> None,
     monitoring |-> None, enabled |-> {}, disabled |-> None,
     poisoned |-> FALSE]

\* TestExtension::set
TestExtension_set(ext, key, value) ==
    IF key = <<"option">>
    THEN [res |-> Ok(ext.test_option),
          ext |-> [ext EXCEPT !.test_option = value]]
    ELSE [res |-> Err("UnsupportedOption", key), ext |-> ext]

\* TestExtension::get
TestExtension_get(ext, key) ==
    IF key = <<"option">>
    THEN Ok(ext.test_option)
    ELSE Err("UnsupportedOption", key)

\* PythonExt::set_crash_handler; enable_ok is the outcome of
\* enable_crash_handler()
set_crash_handler(ext, crash_handler, enable_ok) ==
    IF ext.crash_handler # None
    THEN [res |-> Err("ReadOnlyOption", <<"crash_handler">>), ext |-> ext]
    ELSE IF crash_handler = None
    THEN [res |-> Err("InvalidOptionValue", <<"crash_handler">>), ext |-> ext]
    ELSE LET ext1 == [ext EXCEPT !.crash_handler = crash_handler]
         IN  IF enable_ok
             THEN [res |-> Ok(<<>>), ext |-> ext1]
             ELSE [res |-> Err("InvalidOptionValue", <<"crash_handler">>),
                   ext |-> ext1]

\* variant: a later set replaces the value the option holds
set_monitoring_overwrite(ext, monitoring, enable_ok) ==
    IF monitoring = None
    THEN [res |-> Err("InvalidOptionValue", <<"monitoring">>), ext |-> ext]
    ELSE [res |-> Ok(<<>>), ext |-> [ext EXCEPT !.monitoring = monitoring]]

\* PythonExt::set_monitoring; enable_ok is the outcome of
\* enable_monitoring(handler)
set_monitoring(ext, monitoring, enable_ok) ==
    IF ext.monitoring # None
    THEN [res |-> Err("ReadOnlyOption", <<"monitoring">>), ext |-> ext]
    ELSE IF monitoring = None
    THEN [res |-> Err("InvalidOptionValue", <<"monitoring">>), ext |-> ext]
    ELSE LET ext1 == [ext EXCEPT !.monitoring = monitoring]
         IN  IF enable_ok
             THEN [res |-> Ok(<<>>), ext |-> ext1]
             ELSE [res |-> Err("InvalidOptionValue", <<"monitoring">>),
                   ext |-> ext1]

\* PythonExt::set_enabled; exec_ok is the outcome of execute_python_code
set_enabled(ext, enabled, exec_ok) ==
    IF enabled = None
    THEN [res |-> Err("InvalidOptionValue", <<"enabled">>), ext |-> ext]
    ELSE LET e == Maybe_to_string(enabled)
         IN  IF e \in ext.enabled
             THEN [res |-> Err("PluginError", e), ext |-> ext]
             ELSE IF ~exec_ok
             THEN [res |-> Err("InvalidOptionValue", <<"enabled">>),
                   ext |-> ext]
             ELSE [res |-> Ok(<<>>),
                   ext |-> [ext EXCEPT !.enabled = @ \cup {e}]]

\* PythonExt::set_disabled; deinit_ok is the outcome of the deinit method of
\* the extension object
set_disabled(ext, disabled, deinit_ok) ==
    IF disabled = None
    THEN [res |-> Err("InvalidOptionValue", <<"disabled">>), ext |-> ext]
    ELSE LET e == Maybe_to_string(disabled)
         IN  IF e \in ext.enabled
             THEN [res |-> IF deinit_ok THEN Ok(<<>>)
                           ELSE Err("PluginError", e),
                   ext |-> [ext EXCEPT !.enabled = @ \ {e}]]
             ELSE [res |-> Ok(<<>>), ext |-> ext]

\* the orders in which a HashMap may iterate over the keys of S
iter_orders(S) ==
    { o \in [1..Cardinality(S) -> S] :
        \A a, b \in 1..Cardinality(S) : a # b => o[a] # o[b] }

\* impl Display for PyExtList: the keys of the map in its iteration order
\* keys, separated by ", "
RECURSIVE PyExtList_fmt(_)
PyExtList_fmt(keys) ==
    IF keys = << >> THEN << >>
    ELSE IF Len(keys) = 1 THEN keys[1]
    ELSE keys[1] \o <<", ">> \o PyExtList_fmt(Tail(keys))

\* the derived EngineExtension::set of PythonExt: every #[option] field is
\* an option under its name (crash_handler also under its alias
\* "crash.handler"); the value is parsed into a Maybe<String> and handed to
\* the setter of the option.  ok is the outcome of the step of the setter
\* that can fail (enable_crash_handler, enable_monitoring,
\* execute_python_code, the deinit method)
PythonExt_set(ext, key, value, ok) ==
    LET done(old, r) == IF r.res.ok THEN [res |-> Ok(old), ext |-> r.ext]
                        ELSE r
    IN  IF key \in { <<"crash_handler">>, <<"crash", ".", "handler">> }
        THEN done(Maybe_to_string(ext.crash_handler),
                  set_crash_handler(ext, Maybe_from_str(value), ok))
        ELSE IF key = <<"monitoring">>
        THEN done(Maybe_to_string(ext.monitoring),
                  set_monitoring(ext, Maybe_from_str(value), ok))
        ELSE IF key = <<"enabled">>
        THEN done(<< >>, set_enabled(ext, Maybe_from_str(value), ok))
        ELSE IF key = <<"disabled">>
        THEN done(Maybe_to_string(ext.disabled),
                  set_disabled(ext, Maybe_from_str(value), ok))
        ELSE [res |-> Err("UnsupportedOption", key), ext |-> ext]

\* the derived EngineExtension::get of PythonExt: the field of the option
\* as a string; keys is the order in which the map of enabled iterates
PythonExt_get(ext, key, keys) ==
    IF key \in { <<"crash_handler">>, <<"crash", ".", "handler">> }
    THEN Ok(Maybe_to_string(ext.crash_handler))
    ELSE IF key = <<"monitoring">>
    THEN Ok(Maybe_to_string(ext.monitoring))
    ELSE IF key = <<"enabled">>
    THEN Ok(PyExtList_fmt(keys))
    ELSE IF key = <<"disabled">>
    THEN Ok(Maybe_to_string(ext.disabled))
    ELSE Err("UnsupportedOption", key)

\* set / get of the failing extension
FailingExtension_set(ext, key) ==
    IF key = <<"option">>
    THEN [res |-> Err("PluginError", key), ext |-> ext]
    ELSE [res |-> Err("UnsupportedOption", key), ext |-> ext]

FailingExtension_get(ext, key) ==
    IF key = <<"option">>
    THEN Err("PluginError", key)
    ELSE Err("UnsupportedOption", key)

\* EngineExtension::set, dispatched on the implementing type
ext_set(ext, key, value, enable_ok) ==
    CASE ext.kind = "test"    -> TestExtension_set(ext, key, value)
      [] ext.kind = "python"  -> PythonExt_set(ext, key, value, enable_ok)
      [] OTHER                -> FailingExtension_set(ext, key)

\* EngineExtension::get, dispatched on the implementing type; keys is the
\* iteration order of the map of enabled
ext_get(ext, key, keys) ==
    CASE ext.kind = "test"    -> TestExtension_get(ext, key)
      [] ext.kind = "python"  -> PythonExt_get(ext, key, keys)
      [] OTHER                -> FailingExtension_get(ext, key)

\* outcomes of running a call handler: it returns normally, it fails, or
\* it panics
CallEnvs == { "ok", "fail", "panic" }

\* the outcome of a call that did not return: its thread panicked
Panicked == [ok |-> FALSE, err |-> "panicked", val |-> << >>]

\* a thread unwinds with the guard of the extension's mutex alive
poison(ext) == [ext EXCEPT !.poisoned = TRUE]

\* PythonExt::call; JoinError stands for a panic of the handler, which the
\* caller of the blocking task sees as Err(JoinError)
PythonExt_call(path, env) ==
    IF env = "panic" THEN Err("JoinError", <<>>)
    ELSE IF path = <<"callstack">>
    THEN IF env = "ok" THEN Ok(<<"callstack">>)
         ELSE Err("PluginError", <<"callstack">>)
    ELSE Ok(<<>>)

\* EngineCall::call: the default implementation unless the type overrides it
ext_call(ext, path, env) ==
    IF ext.kind = "python"
    THEN PythonExt_call(path, env)
    ELSE Err("UnsupportedCall", <<>>)

\* EngineExtensionManager::extract_namespace
extract_namespace(extension_name) ==
    LET lower == to_lowercase(extension_name)
        namespace == IF ends_with(lower, <<"extension">>)
                     THEN SubSeq(lower, 1, Len(lower) - 1)
                     ELSE lower
    IN  namespace \o <<".">>

(* ------------------------------ config store --------------------------- *)

\* config::set: BTreeMap::insert(key, value.into())
set(store, key, value) ==
    [k \in (DOMAIN store) \cup {key} |->
        IF k = key THEN Text(value) ELSE store[k]]

\* config::get
get(store, key) ==
    IF key \in DOMAIN store THEN Some(store[key]) ELSE None

\* config::get_str
get_str(store, key) ==
    IF key \in DOMAIN store
    THEN Some(to_string_lossy(store[key]))
    ELSE None

\* config::contains_key
contains_key(store, key) == key \in DOMAIN store

\* BTreeMap::new()
EmptyMap == [k \in {} |-> k]

\* config::clear
clear(store) == EmptyMap

\* config::remove: BTreeMap::remove(key), the store it leaves and the
\* element it returns
remove(store, key) ==
    [store |-> [k \in (DOMAIN store) \ {key} |-> store[k]],
     res |-> get(store, key)]

(* --------------------------- extension dispatch ------------------------ *)

\* variant: the registry iterated in the order of registration
extensions_clone_by_registration(exts) == reg_order

\* extensions.values().cloned().collect(): the registry's extensions in the
\* iteration order of the BTreeMap, named here by their registry keys
extensions_clone(exts) == SortedKeys(DOMAIN exts)

\* one entry of the record of handler invocations kept for the properties
\* the extension at registry key reg, whose name is name, was handed
\* local_key and returned res; changed tells whether the handler changed
\* the extension
Visit(reg, name, local_key, res, changed) ==
    [reg |-> reg, name |-> name, local |-> local_key, res |-> res,
     changed |-> changed]

\* variant: the loop goes on after an extension accepted the value
set_option_match_continue_on_ok(res) ==
    IF res.ok THEN "continue"
    ELSE IF res.err = "UnsupportedOption" THEN "continue"
    ELSE "return_err"

\* the match on the handler's result in set_option:
\* Ok => return, UnsupportedOption => continue, any other error => return
set_option_match(res) ==
    IF res.ok THEN "return_ok"
    ELSE IF res.err = "UnsupportedOption" THEN "continue"
    ELSE "return_err"

\* EngineExtensionManager::set_option_with_store_update behind
\* self.set_option(key, value), which returned r: the ? operator returns an
\* error of set_option; on success the function evaluates
\* config::set(key, value) without awaiting it.  config::set is an async fn:
\* the call only makes a future, which is dropped without being polled, so
\* the store is as it was on every path
set_option_with_store_update(r, store, key, value) ==
    IF r.res.ok
    THEN [res |-> Ok(<< >>), store |-> store]
    ELSE [res |-> r.res, store |-> store]

\* for every extension of the registry, an order in which its map of
\* enabled iterates
map_iters(exts) ==
    { f \in [DOMAIN exts ->
                UNION { iter_orders(exts[k].enabled) : k \in DOMAIN exts }] :
        \A k \in DOMAIN exts : f[k] \in iter_orders(exts[k].enabled) }

\* the loop of EngineExtensionManager::get_option from position i on;
\* iters gives the iteration orders of the maps of enabled
RECURSIVE get_option_loop(_, _, _, _, _)
get_option_loop(exts, order, i, key, iters) ==
    IF i > Len(order)
    THEN [res |-> Err("UnsupportedOption", key), visited |-> << >>]
    ELSE LET ext == exts[order[i]]
             namespace == extract_namespace(ext.name)
         IN  IF ext.poisoned
             THEN [res |-> Panicked, visited |-> << >>]
             ELSE IF ~starts_with(key, namespace)
             THEN get_option_loop(exts, order, i + 1, key, iters)
             ELSE LET local_key == trim_start_matches(key, namespace)
                      r == ext_get(ext, local_key, iters[order[i]])
                      v == Visit(order[i], ext.name, local_key, r, FALSE)
                  IN  IF r.ok
                      THEN [res |-> r, visited |-> <<v>>]
                      ELSE LET rest == get_option_loop(exts, order, i + 1, key,
                                                   iters)
                           IN  [rest EXCEPT !.visited = <<v>> \o rest.visited]

\* EngineExtensionManager::get_option
get_option(exts, key, iters) ==
    get_option_loop(exts, extensions_clone(exts), 1, key, iters)

\* the match on the result of the blocking task in call:
\* Ok(Ok) => return, Ok(Err(UnsupportedCall)) => continue,
\* Ok(Err(e)) => return, Err(JoinError) => continue
call_match(res) ==
    IF res.ok THEN "return"
    ELSE IF res.err = "UnsupportedCall" THEN "continue"
    ELSE IF res.err = "JoinError" THEN "continue"
    ELSE "return"

\* ExtensionOptions::set, the adapter behind a SQL-level SET, behind
\* set_option, which returned res: an error becomes an execution error of
\* the engine
ExtensionOptions_set(res) ==
    IF res.ok THEN res
    ELSE Err("Execution", <<res.err>> \o res.val)

(* ------------------------- write-through API --------------------------- *)

\* variant: every key is dispatched to the extensions
write_dispatches_any_key(key, has_eem) == has_eem

\* config::write, the conditions under which the key is dispatched: the key
\* starts with "probing" and the session configuration of the engine handle
\* carries an EngineExtensionManager (has_eem)
write_dispatches(key, has_eem) == starts_with(key, <<"probing">>) /\ has_eem

\* config::write, the key handed to set_option
extension_key(key) ==
    IF starts_with(key, <<"probing", ".">>) THEN DropPrefix(key, 2) ELSE key

\* variant: a refused value is written to the store
write_match_store_on_error(r) ==
    IF r.res.ok
    THEN [res |-> Ok(<< >>), sets |-> TRUE]
    ELSE IF r.res.err = "UnsupportedOption"
    THEN [res |-> Ok(<< >>), sets |-> TRUE]
    ELSE [res |-> r.res, sets |-> TRUE]

\* variant: UnsupportedOption is returned to the caller
write_match_propagate_unsupported(r) ==
    IF r.res.ok
    THEN [res |-> Ok(<< >>), sets |-> TRUE]
    ELSE [res |-> r.res, sets |-> FALSE]

\* config::write, the match on the result r of set_option: what write
\* returns, and whether it calls set(key, value) before it does.  On Ok the
\* set is the one inside the block, on UnsupportedOption the one behind it
write_match(r) ==
    IF r.res.ok
    THEN [res |-> Ok(<< >>), sets |-> TRUE]
    ELSE IF r.res.err = "UnsupportedOption"
    THEN [res |-> Ok(<< >>), sets |-> TRUE]
    ELSE [res |-> r.res, sets |-> FALSE]

(* ----------------------- plugins of the query engine ------------------- *)

\* A plugin is its name, namespace and kind, and, as a table provider, the
\* schema (a list of fields) and the record batches it scans; a batch is
\* the list of its column arrays, one per field.
Field(name, type) == [name |-> name, type |-> type]

\* TestTablePlugin::default / GenericTablePlugin::simple_table as "ns"."t"
TablePlugin ==
    [name |-> "t", namespace |-> "ns", kind |-> "Table",
     schema |-> << Field("id", "Int32"), Field("name", "Utf8") >>,
     batches |-> << << <<1, 2, 3>>, <<"a", "b", "c">> >> >>]

\* GenericTablePlugin::empty_table: one batch of no rows
EmptyTablePlugin ==
    [name |-> "empty_table", namespace |-> "test", kind |-> "Table",
     schema |-> << Field("id", "Int32") >>,
     batches |-> << << << >> >> >>]

\* GenericTablePlugin::new with a column of a type that arrow_array_to_seq
\* does not list
Int16TablePlugin ==
    [name |-> "u", namespace |-> "ns", kind |-> "Table",
     schema |-> << Field("id", "Int32"), Field("code", "Int16") >>,
     batches |-> << << <<7, 8>>, <<1, 2>> >> >>]

\* another provider of "ns"."t"
OtherTablePlugin ==
    [name |-> "t", namespace |-> "ns", kind |-> "Table",
     schema |-> << Field("id", "Int32"), Field("name", "Utf8") >>,
     batches |-> << << <<9>>, <<"z">> >> >>]

\* TestNamespacePlugin: register_namespace is the default of the trait
NamespacePlugin ==
    [name |-> "test_namespace", namespace |-> "test_namespace",
     kind |-> "Namespace", schema |-> << >>, batches |-> << >>]

\* PythonPlugin::create(namespace), the plugin PythonExt::datasrc yields: a
\* namespace plugin (its code is not part of the sources; by the
\* specification a namespace plugin adds its namespace under "probe")
PythonPlugin(namespace) ==
    [name |-> "python", namespace |-> namespace,
     kind |-> "Namespace", schema |-> << >>, batches |-> << >>]

\* Plugin::register_namespace: the default of the trait returns Ok(()) and
\* leaves the catalog alone; the one of PythonPlugin registers the schema
\* of its namespace, with the tables it enumerates on demand
register_namespace(ctx, plugin) ==
    IF plugin = PythonPlugin(plugin.namespace)
    THEN Ok([s \in (DOMAIN ctx) \cup {plugin.namespace} |->
                IF s = plugin.namespace THEN EmptyMap ELSE ctx[s]])
    ELSE Ok(ctx)

\* EngineDatasource::datasrc: PythonExt yields its plugin, the default of
\* the trait yields none
datasrc(ext, namespace) ==
    IF ext.kind = "python" THEN Some(PythonPlugin(namespace)) ELSE None

EnginePlugins ==
    { TablePlugin, EmptyTablePlugin, Int16TablePlugin, OtherTablePlugin,
      NamespacePlugin }

\* variant: the default register_table of the trait, which does nothing
register_table_default(tables, plugin) == Ok(tables)

\* Plugin::register_table of the table plugins:
\* schema_provider.register_table(self.name(), self), which the memory
\* schema provider refuses when it has a table of that name
register_table(tables, plugin) ==
    IF plugin.name \in DOMAIN tables
    THEN Err("DataFusionError", plugin.name)
    ELSE Ok([t \in (DOMAIN tables) \cup {plugin.name} |->
                IF t = plugin.name THEN plugin ELSE tables[t]])

\* HashMap::insert
index_insert(plugins, key, plugin) ==
    [k \in (DOMAIN plugins) \cup {key} |->
        IF k = key THEN plugin ELSE plugins[k]]

\* Engine::enable: the context and the plugin index it leaves, and its
\* result
enable(ctx, plugins, plugin) ==
    IF plugin.kind = "Namespace"
    THEN LET registered == register_namespace(ctx, plugin)
         IN  IF registered.ok
             THEN [ctx |-> registered.val,
                   plugins |-> index_insert(plugins,
                                   "probe." \o plugin.namespace, plugin),
                   res |-> Ok(<< >>)]
             ELSE [ctx |-> ctx, plugins |-> plugins, res |-> registered]
    ELSE LET with_schema ==
                 [s \in (DOMAIN ctx) \cup {plugin.namespace} |->
                     IF s \in DOMAIN ctx THEN ctx[s] ELSE EmptyMap]
             registered == register_table(with_schema[plugin.namespace],
                                          plugin)
         IN  IF registered.ok
             THEN [ctx |-> [with_schema EXCEPT
                               ![plugin.namespace] = registered.val],
                   plugins |-> index_insert(plugins,
                                   "probe." \o plugin.namespace \o "."
                                       \o plugin.name,
                                   plugin),
                   res |-> Ok(<< >>)]
             ELSE [ctx |-> with_schema, plugins |-> plugins,
                   res |-> registered]

(* ---------------------------- operations ------------------------------- *)

\* the extensions a builder can be given; the builder keys them by name
BuilderExtensions ==
    { TestExtension(<<"test">>), TestExtension(<<"Test", "Extension">>),
      PythonExt }

\* the arguments of register: the builder's (name, extension) pairs and an
\* extension registered under a key of the caller's choice
Registrations ==
    { <<e.name, e>> : e \in BuilderExtensions }
    \cup { << <<"my_ext_instance_key">>, FailingExtension(<<"test">>) >> }

\* option keys as the dispatch sees them
OptionKeys ==
    { <<"test", ".", "option">>,
      <<"test", ".", "key">>,
      <<"python", ".", "crash_handler">>,
      <<"python", ".", "disabled">> }

\* option keys handed to the store functions, to
\* set_option_with_store_update and to the SQL-level SET
MirroredKeys ==
    { <<"test", ".", "option">>,
      <<"test", ".", "key">>,
      <<"python", ".", "crash_handler">> }

\* keys handed to config::write
ConfigKeys ==
    { <<"test", ".", "option">>, <<"probing">> }
    \cup { <<"probing", ".">> \o k : k \in OptionKeys }

\* paths handed to call
Paths ==
    { <<"/">> \o n \o <<"/">> \o l :
        n \in { <<"test">>, <<"python">> },
        l \in { <<"callstack">>, <<"nosuch">> } }

\* the record of an operation
Op(op, key, value, res, visited) ==
    [op |-> op, key |-> key, value |-> value, res |-> res,
     visited |-> visited, order |-> << >>, skipped |-> {},
     wrote |-> FALSE, disturbed |-> FALSE]

\* a sequence without the element x
RECURSIVE Without(_, _)
Without(seq, x) ==
    IF seq = << >> THEN << >>
    ELSE IF Head(seq) = x THEN Without(Tail(seq), x)
    ELSE <<Head(seq)>> \o Without(Tail(seq), x)

\* BTreeMap::insert on the registry
insert(exts, name, extension) ==
    [k \in (DOMAIN exts) \cup {name} |->
        IF k = name THEN extension ELSE exts[k]]

\* the threads of the process
Threads == { "t1", "t2" }

\* no thread is inside the extension manager and no lock is held
InitThreads ==
    /\ threads = [t \in Threads |-> << >>]
    /\ locks = [registry |-> {}, engine_readers |-> {}, engine_writer |-> {},
                ext |-> {}]
    /\ arcs = [n |-> 0,
               gen |-> [k \in { r[1] : r \in Registrations } |-> 0],
               detached |-> EmptyMap]
    /\ calls = [n |-> 0, reg |-> 0, kinds |-> {}]

\* config::store::CONFIG_STORE is empty and no thread is using it
InitStore ==
    /\ ConfigStore = EmptyMap
    /\ store_last = [op |-> "init", key |-> << >>, res |-> None,
                     entries |-> << >>, n |-> 0]
    /\ store_written = EmptyMap
    /\ store_threads = [t \in Threads |-> << >>]
    /\ store_lock = [readers |-> {}, writer |-> {}]
    /\ store_hist = EmptyMap

\* SessionContext::new_with_config with the default namespace "probe": the
\* catalog "probe" with its default schema; context maps a schema of the
\* catalog to its tables
NewContext == [s \in {"probe"} |-> EmptyMap]

\* Engine { context, plugins: Default::default() }
NewEngine == [plugins |-> EmptyMap]

\* no build is in progress, and none was begun
NoBuild ==
    [pc |-> "idle", seq |-> << >>, i |-> 0, plugins |-> << >>, n |-> 0]

InitEngine ==
    /\ context = NewContext
    /\ engines = << NewEngine >>
    /\ builder = NoBuild
    /\ engine_last = [op |-> "init", handle |-> 0, arg |-> << >>,
                      res |-> Ok(<< >>)]

InitConv ==
    conv_last = [op |-> "init", ele |-> Nil,
                 res |-> Ok([b |-> FALSE, h |-> 0, n |-> 0])]

\* the catalog has its default schema "probe", held by the first provider
InitCatalog ==
    /\ catalog = [s \in {"probe"} |-> 1]
    /\ providers = << [namespace |-> "probe", tables |-> EmptyMap] >>

\* what a task that is in no call of the engine holds: no plugin, no
\* query and no plan
NoPlugin ==
    [name |-> "", namespace |-> "", kind |-> "Table", schema |-> << >>,
     batches |-> << >>]

NoQuery == [kind |-> "none", namespace |-> "", table |-> "", k |-> 0]

NoPlan == [kind |-> "none", schema |-> << >>, batches |-> << >>, k |-> 0]

\* no Python span is entered, no reply converted, no task is in a call of
\* the engine
InitIdle ==
    /\ SPAN_STACK = [t \in Threads |-> << >>]
    /\ span_entered = [t \in Threads |-> << >>]
    /\ dto_last = [op |-> "init",
                   data |-> [t |-> "Nil", code |-> "", message |-> "",
                             df |-> [names |-> << >>, cols |-> << >>]],
                   status |-> 0, dto |-> FALSE, success |-> TRUE,
                   message |-> None,
                   payload |-> [t |-> "Nil", code |-> "", message |-> "",
                                df |-> [names |-> << >>, cols |-> << >>]]]
    /\ engine_tasks =
           [t \in Threads |->
               [pc |-> "idle", plugin |-> NoPlugin, schema |-> 0,
                handle |-> 1, query |-> NoQuery,
                plan |-> NoPlan, enabled |-> {}, known |-> {},
                calls |-> 0, begun |-> {}, ok |-> {}, failed |-> FALSE]]

InitAux == InitIdle /\ InitCatalog

\* no span tree has been asked for
InitNoTree ==
    tree_last = [events |-> << >>, order |-> << >>, result |-> << >>,
                 done |-> TRUE]

\* NEXT_TRACE_ID and NEXT_SPAN_ID are AtomicU64::new(1); no span exists
InitNoSpans ==
    /\ NEXT_TRACE_ID = 1
    /\ NEXT_SPAN_ID = 1
    /\ spans = << >>
    /\ span_threads = [t \in Threads |-> << >>]
    /\ span_last = [op |-> "init", span |-> 0, res |-> "", n |-> 0]

\* the tracing core as it is: nothing is attached to it, there is no buffer
InitSpans ==
    /\ InitNoSpans
    /\ trace_event = None

Init ==
    /\ EXTENSIONS = EmptyMap
    /\ CONFIG_STORE = EmptyMap
    /\ engine_eem = FALSE
    /\ reg_order = << >>
    /\ last = Op("init", << >>, << >>, Ok(<< >>), << >>)
    /\ InitThreads
    /\ InitStore
    /\ InitSpans
    /\ InitEngine
    /\ InitConv
    /\ InitAux
    /\ InitNoTree

\* A thread executes a stack of calls; the last element is the call being
\* executed.  A call that runs on behalf of a blocked caller (set_option
\* called by config::write, the body of spawn_blocking, a query issued by a
\* call handler on a thread it joins) is a further element of the caller's
\* stack.  A call is recorded with its arguments, its position pc, its
\* snapshot of the registry, the index i of the extension it is at and,
\* once it is done, its result res.
\*
\* The snapshot is a vector of Arc clones: it names objects, not registry
\* keys.  An object is named by the registry key it was registered under
\* and a generation number: snap holds the keys and gens the generations.
\* arcs.gen[k] is the generation of the object the registry holds under k,
\* whose record is EXTENSIONS[k]; arcs.detached holds the records of the
\* objects that register has replaced in the registry and that a snapshot
\* still names.
\*
\* For the properties a call keeps a history of what it did: order is the
\* snapshot it took, visited the handler invocations it made, skipped the
\* registry keys of the extensions it passed because of their name, wrote
\* whether it wrote the config store, and disturbed whether an extension
\* was registered while it ran.
Frame(op, pc, key, value, env) ==
    [op |-> op, pc |-> pc, key |-> key, value |-> value, env |-> env,
     snap |-> << >>, gens |-> << >>, i |-> 0, res |-> Ok(<< >>),
     order |-> << >>, visited |-> << >>, skipped |-> {},
     wrote |-> FALSE, disturbed |-> FALSE]

Top(stack) == stack[Len(stack)]

Pop(stack) == SubSeq(stack, 1, Len(stack) - 1)

SetTop(stack, f) == [stack EXCEPT ![Len(stack)] = f]

\* the call has returned res
Finished(f, res) ==
    [f EXCEPT !.pc = "done", !.res = res,
              !.snap = << >>, !.gens = << >>, !.i = 0]

\* the history of the call r that has returned into its caller f
inherit(f, r) ==
    [f EXCEPT !.order = r.order, !.visited = r.visited,
              !.skipped = r.skipped,
              !.disturbed = f.disturbed \/ r.disturbed]

\* the value returned behind the loop over the snapshot
loop_end(f) ==
    CASE f.op = "set_option" -> Err("UnsupportedOption", f.key)
      [] f.op = "get_option" -> Err("UnsupportedOption", f.key)
      [] f.op = "options"    -> Ok(<< >>)
      [] OTHER               -> Err("CallError", f.key)

\* the first lock() of an iteration of the loop
first_lock(op) ==
    CASE op = "set_option" -> "lock_name"
      [] op = "call"       -> "lock_name"
      [] op = "get_option" -> "lock_get"
      [] OTHER             -> "lock_options"

\* the loop over the snapshot goes on with the extension at index i
advance(f, i) ==
    IF i > Len(f.snap)
    THEN Finished(f, loop_end(f))
    ELSE [f EXCEPT !.i = i, !.pc = first_lock(f.op)]

\* the positions where a call is about to lock an extension's mutex
ExtLockPcs ==
    { "lock_name", "lock_set", "lock_get", "lock_options", "lock_call" }

\* the registry keys
RegistryKeys == { r[1] : r \in Registrations }

\* the generations of the objects under key k that the calls of the stacks
\* thr still go to: the entries of their snapshots from index i on
refs(thr, k) ==
    UNION { UNION { { thr[t][n].gens[j] :
                        j \in { m \in 1..Len(thr[t][n].snap) :
                                  /\ m >= thr[t][n].i
                                  /\ thr[t][n].snap[m] = k } } :
                    n \in { m \in 1..Len(thr[t]) : thr[t][m].pc # "done" } } :
            t \in Threads }

\* the object of generation g under key k
object(k, g) ==
    IF g = arcs.gen[k] THEN EXTENSIONS[k] ELSE arcs.detached[<<k, g>>]

\* an object that no snapshot names any longer is dropped, and the
\* generation of a registered object that no snapshot names is 0
drop_unused(thr, a) ==
    [a EXCEPT
        !.gen = [k \in RegistryKeys |->
                    IF refs(thr, k) = {} THEN 0 ELSE a.gen[k]],
        !.detached = [d \in { x \in DOMAIN a.detached :
                                x[2] \in refs(thr, x[1]) } |->
                         a.detached[d]]]

\* the objects after the object of generation g under key k became ext
put_detached(a, k, g, ext) ==
    IF g = a.gen[k] THEN a
    ELSE [a EXCEPT !.detached = [d \in DOMAIN @ |->
                                    IF d = <<k, g>> THEN ext ELSE @[d]]]

\* the registry after the object of generation g under key k became ext
put_registered(exts, k, g, ext) ==
    IF g = arcs.gen[k] THEN [exts EXCEPT ![k] = ext] ELSE exts

\* the objects after insert(k, ..) replaced the registry's entry of k: the
\* object it held stays with the snapshots that name it, and the new object
\* gets a generation that none of them uses
replaced(thr, a, exts, k) ==
    IF k \in DOMAIN exts /\ a.gen[k] \in refs(thr, k)
    THEN [a EXCEPT
             !.gen = [a.gen EXCEPT ![k] =
                         CHOOSE n \in 0..(2 * Cardinality(Threads)) :
                             /\ n \notin refs(thr, k)
                             /\ \A m \in 0..(n - 1) : m \in refs(thr, k)],
             !.detached =
                 [d \in (DOMAIN a.detached) \cup { <<k, a.gen[k]>> } |->
                     IF d = <<k, a.gen[k]>> THEN exts[k]
                     ELSE a.detached[d]]]
    ELSE a

\* the calls in progress have seen an extension being registered
disturb(thr) ==
    [t \in Threads |->
        [n \in 1..Len(thr[t]) |-> [thr[t][n] EXCEPT !.disturbed = TRUE]]]

\* the mutex of the object is free
ext_free(l, k, g) == ~ \E h \in l.ext : h[1] = k /\ h[3] = g

lock_ext(l, k, t, g) == [l EXCEPT !.ext = @ \cup { <<k, t, g>> }]

unlock_ext(l, k, t, g) == [l EXCEPT !.ext = @ \ { <<k, t, g>> }]

\* variant: the read guard of the registry lives until the call returns
keep_registry_guard(l, t) == l

\* the end of the block "let extensions = EXTENSIONS.read().unwrap(); ..."
\* drops the read guard of the registry
drop_registry_guard(l, t) == [l EXCEPT !.registry = @ \ {t}]

\* the registry keys some thread is about to register
Registering ==
    { threads[t][1].key :
        t \in { u \in Threads : /\ threads[u] # << >>
                                /\ threads[u][1].op = "register" } }

\* the store keys that the calls of config::write in progress may write
Writing ==
    { threads[t][1].key :
        t \in { u \in Threads : /\ threads[u] # << >>
                                /\ threads[u][1].op = "write" } }

\* the names a build in progress is still to register
Pending ==
    { builder.seq[n].name : n \in { m \in 1..Len(builder.seq) :
                                      m >= builder.i } }

\* EngineExtensionManager::register(name, extension):
\* EXTENSIONS.write().unwrap().insert(name, extension).  The object that
\* the registry held under the name stays with the snapshots that name it
Register ==
    \E r \in Registrations :
        /\ locks.registry = {}
        /\ calls.reg < MaxRegistrations
        /\ Cardinality((DOMAIN EXTENSIONS) \cup Pending \cup Registering
                         \cup {r[1]}) <= MaxExts
        /\ EXTENSIONS' = insert(EXTENSIONS, r[1], r[2])
        /\ reg_order' = Append(Without(reg_order, r[1]), r[1])
        /\ arcs' = replaced(threads, arcs, EXTENSIONS, r[1])
        /\ threads' = disturb(threads)
        /\ calls' = [calls EXCEPT !.reg = @ + 1]
        /\ last' = Op("register", r[1], << >>, Ok(<< >>), << >>)
        /\ UNCHANGED <<CONFIG_STORE, engine_eem, locks,
                       store_vars, span_vars, engine_vars, conv_vars,
                       aux_vars>>

\* the registry after registering the extensions of seq, each under its name
RECURSIVE register_all(_, _)
register_all(exts, seq) ==
    IF seq = << >> THEN exts
    ELSE register_all(insert(exts, Head(seq).name, Head(seq)), Tail(seq))

\* reg_order after registering the extensions of seq
RECURSIVE order_all(_, _)
order_all(order, seq) ==
    IF seq = << >> THEN order
    ELSE order_all(Append(Without(order, Head(seq).name), Head(seq).name),
                   Tail(seq))

\* the iteration orders of a builder's extensions (a HashMap keyed by name)
BuilderSeqs ==
    { << >> } \cup { <<e>> : e \in BuilderExtensions }
    \cup { <<p[1], p[2]>> :
             p \in { q \in BuilderExtensions \X BuilderExtensions :
                       q[1].name # q[2].name } }

\* the plugins handed to the builder by with_plugin
BuilderPlugins ==
    { << >>, << TablePlugin >>, << TablePlugin, OtherTablePlugin >> }

\* EngineBuilder::with_extension, its effect on self.plugins: the plugin of
\* the extension's datasrc, if it has one, is pushed.  The caller names the
\* namespace after the extension, and has called with_plugin before
RECURSIVE with_extension(_, _)
with_extension(plugins, seq) ==
    IF seq = << >> THEN plugins
    ELSE LET d == datasrc(Head(seq), Head(seq).name[1])
         IN  with_extension(IF d = None THEN plugins
                            ELSE Append(plugins, unwrap(d)),
                            Tail(seq))

\* the schemas of the catalog in the order of their creation, after an
\* enable that left the context ctx
new_schemas(schemas, ctx) ==
    LET fresh == (DOMAIN ctx) \ { schemas[n] : n \in 1..Len(schemas) }
    IN  IF fresh = {} THEN schemas
        ELSE Append(schemas, CHOOSE s \in fresh : TRUE)

\* the loop "for plugin in self.plugins { engine.enable(plugin).await?; }"
\* of EngineBuilder::build from position j on, on the engine b
RECURSIVE enable_all(_, _, _)
enable_all(b, plugins, j) ==
    IF j > Len(plugins) THEN [b EXCEPT !.res = Ok(<< >>)]
    ELSE LET r == enable(b.ctx, b.index, plugins[j])
         IN  IF ~r.res.ok THEN [b EXCEPT !.res = r.res]
             ELSE enable_all([ctx |-> r.ctx, index |-> r.plugins,
                              schemas |-> new_schemas(b.schemas, r.ctx),
                              res |-> r.res],
                             plugins, j + 1)

\* EngineBuilder::build on a builder with the extensions seq (in the
\* iteration order of its HashMap) and the plugins of with_plugin: the
\* registry it leaves and the engine it returns
build(exts, order, seq, plugins) ==
    LET e == enable_all([ctx |-> NewContext, index |-> NewEngine.plugins,
                         schemas |-> <<"probe">>, res |-> Ok(<< >>)],
                        with_extension(plugins, seq), 1)
    IN  [exts |-> register_all(exts, seq), order |-> order_all(order, seq),
         ctx |-> e.ctx, index |-> e.index, schemas |-> e.schemas,
         res |-> e.res]

\* the catalog of a context whose schemas were created in the order given
catalog_of(schemas) ==
    [s \in { schemas[n] : n \in 1..Len(schemas) } |->
        CHOOSE n \in 1..Len(schemas) : schemas[n] = s]

providers_of(ctx, schemas) ==
    [n \in 1..Len(schemas) |->
        [namespace |-> schemas[n], tables |-> ctx[schemas[n]]]]

\* the state initialize_engine leaves in a new process when it is given a
\* builder with the extensions seq
InitBuilt(seq) ==
    LET b == build(EmptyMap, << >>, seq, << >>)
    IN  /\ EXTENSIONS = b.exts
        /\ reg_order = b.order
        /\ engine_eem = TRUE
        /\ last = Op("initialize_engine", << >>, << >>, b.res, << >>)
        /\ context = b.ctx
        /\ engines = << [plugins |-> b.index] >>
        /\ engine_last = [op |-> "init", handle |-> 0, arg |-> << >>,
                          res |-> Ok(<< >>)]
        /\ builder = NoBuild
        /\ catalog = catalog_of(b.schemas)
        /\ providers = providers_of(b.ctx, b.schemas)

\* the record of a step of build that does not end it
BuildStep == Op("build", << >>, << >>, Ok(<< >>), << >>)

\* initialize_engine(builder) begins: build() is called on a builder that
\* was given the extensions seq and the plugins of with_plugin
InitializeEngine ==
    \E seq \in BuilderSeqs, plugins \in BuilderPlugins :
        /\ builder.pc = "idle"
        /\ builder.n < MaxBuilds
        /\ Cardinality(DOMAIN register_all(EXTENSIONS, seq)) <= MaxExts
        /\ builder' = [pc |-> "register", seq |-> seq, i |-> 1,
                       plugins |-> with_extension(plugins, seq),
                       n |-> builder.n + 1]
        /\ last' = BuildStep
        /\ UNCHANGED <<EXTENSIONS, CONFIG_STORE, engine_eem, reg_order,
                       lock_vars, store_vars, span_vars,
                       context, engines, engine_last, conv_vars,
                       aux_vars>>

\* build: eem.register(name.clone(), extension.clone()) for one extension
\* of the builder
BuildRegister ==
    /\ builder.pc = "register"
    /\ builder.i <= Len(builder.seq)
    /\ locks.registry = {}
    /\ LET extension == builder.seq[builder.i]
       IN  /\ EXTENSIONS' = insert(EXTENSIONS, extension.name, extension)
           /\ reg_order' = Append(Without(reg_order, extension.name),
                                  extension.name)
           /\ arcs' = replaced(threads, arcs, EXTENSIONS, extension.name)
    /\ threads' = disturb(threads)
    /\ builder' = [builder EXCEPT !.i = @ + 1]
    /\ last' = BuildStep
    /\ UNCHANGED <<CONFIG_STORE, engine_eem, locks, calls,
                   store_vars, span_vars,
                   context, engines, engine_last, conv_vars,
                   aux_vars>>

\* build behind the loop of the registrations: the manager is put into the
\* session configuration, the engine is made of a new session context and
\* an empty plugin index, and the plugins are enabled, all on an engine
\* that no other thread has.  When an enable fails, build and
\* initialize_engine return its error and the engine handle stays what it
\* was; otherwise initialize_engine makes the engine the process-wide
\* handle, which takes the write lock of the handle
BuildEngine ==
    /\ builder.pc = "register"
    /\ builder.i > Len(builder.seq)
    /\ locks.engine_writer = {}
    /\ locks.engine_readers = {}
    /\ builder' = [NoBuild EXCEPT !.n = builder.n]
    /\ LET b == enable_all([ctx |-> NewContext, index |-> NewEngine.plugins,
                            schemas |-> <<"probe">>, res |-> Ok(<< >>)],
                           builder.plugins, 1)
       IN  /\ last' = Op("initialize_engine", << >>, << >>, b.res, << >>)
           /\ IF b.res.ok
              THEN /\ engine_eem' = TRUE
                   /\ context' = b.ctx
                   /\ engines' = << [plugins |-> b.index] >>
                   /\ catalog' = catalog_of(b.schemas)
                   /\ providers' = providers_of(b.ctx, b.schemas)
              ELSE UNCHANGED <<engine_eem, context, engines, catalog,
                               providers>>
    /\ UNCHANGED <<EXTENSIONS, CONFIG_STORE, reg_order,
                   lock_vars, store_vars, span_vars,
                   engine_last, conv_vars,
                   SPAN_STACK, span_entered, dto_last, tree_last,
                   engine_tasks>>

\* config::set(key, value)
Set ==
    \E key \in MirroredKeys, value \in Values :
        /\ calls.n < MaxCalls
        /\ Cardinality(DOMAIN set(CONFIG_STORE, key, value)) <= MaxStore
        /\ CONFIG_STORE' = set(CONFIG_STORE, key, value)
        /\ calls' = [calls EXCEPT !.n = @ + 1]
        /\ last' = Op("set", key, value, Ok(<< >>), << >>)
        /\ UNCHANGED <<EXTENSIONS, engine_eem, reg_order,
                       threads, locks, arcs, store_vars, span_vars,
                       engine_vars, conv_vars, aux_vars>>

\* config::clear()
Clear ==
    /\ calls.n < MaxCalls
    /\ CONFIG_STORE' = clear(CONFIG_STORE)
    /\ calls' = [calls EXCEPT !.n = @ + 1]
    /\ last' = Op("clear", << >>, << >>, Ok(<< >>), << >>)
    /\ UNCHANGED <<EXTENSIONS, engine_eem, reg_order,
                   threads, locks, arcs, store_vars, span_vars,
                   engine_vars, conv_vars, aux_vars>>

\* config::remove(key); the Option<Ele> it returns is recorded as the text
\* "None", or "Some" followed by the text of the element
Remove ==
    \E key \in MirroredKeys :
        LET r == remove(CONFIG_STORE, key)
        IN  /\ calls.n < MaxCalls
            /\ CONFIG_STORE' = r.store
            /\ calls' = [calls EXCEPT !.n = @ + 1]
            /\ last' = Op("remove", key, << >>,
                          IF r.res = None THEN Ok(<<"None">>)
                          ELSE Ok(<<"Some">> \o unwrap(r.res).v), << >>)
            /\ UNCHANGED <<EXTENSIONS, engine_eem, reg_order,
                           threads, locks, arcs, store_vars, span_vars,
                           engine_vars, conv_vars, aux_vars>>

(* ------------------ threads in the extension manager ------------------- *)

\* The calls of config::write, set_option, set_option_with_store_update,
\* get_option, options, call and of a query proceed in the steps of their
\* code: the registry lock, the snapshot, each lock of an extension's
\* mutex, the handler, the engine lock, the store write.  Between two steps
\* of a call the steps of the calls of other threads take place.

\* config::write begins: a key that write dispatches when the session
\* carries a manager ("if key.starts_with("probing")") leads to
\* ENGINE.write().await, any other key to set(key, value)
write_frame(key, value) ==
    Frame("write",
          IF write_dispatches(key, TRUE) THEN "engine_lock" ELSE "store",
          key, value, "ok")

\* set_option_with_store_update begins: self.set_option(key, value)
update_stack(key, value) ==
    << Frame("set_option_with_store_update", "dispatching", key, value, "ok"),
       Frame("set_option", "read_lock", key, value, "ok") >>

\* the record of a step in which no call returned to its caller
NoOp == Op("none", << >>, << >>, Ok(<< >>), << >>)

\* the function a call is a call of: a query with the statement SET is the
\* SQL-level SET
op_name(f) == IF f.op = "query" /\ f.env = "set" THEN "sql_set" ELSE f.op

\* the record of a call that has returned to the caller of the thread
Returned(f) ==
    [op |-> op_name(f), key |-> f.key, value |-> f.value, res |-> f.res,
     visited |-> f.visited, order |-> f.order, skipped |-> f.skipped,
     wrote |-> f.wrote, disturbed |-> f.disturbed]

\* the call of the thread itself is done
returns(stack) == Len(stack) = 1 /\ stack[1].pc = "done"

\* thread t goes on with stack; when the call of the thread itself is
\* done, it returns in the same step and is recorded
Proceed(t, stack) ==
    /\ threads' = [threads EXCEPT
                      ![t] = IF returns(stack) THEN << >> ELSE stack]
    /\ last' = IF returns(stack) THEN Returned(stack[1]) ELSE NoOp

\* the threads in a fixed order
ThreadOrder == <<"t1", "t2">>

\* the first thread that is in no call: the threads differ in nothing but
\* their names, so a call that begins is given to the first of them
first_idle(t) ==
    \E n \in 1..Len(ThreadOrder) :
        /\ ThreadOrder[n] = t
        /\ threads[t] = << >>
        /\ \A m \in 1..(n - 1) : threads[ThreadOrder[m]] # << >>

\* thread t, which is in no call, begins the calls of stack
enter(t, stack) ==
    /\ calls.n < MaxCalls
    /\ threads' = [threads EXCEPT ![t] = stack]
    /\ calls' = [calls EXCEPT !.n = @ + 1]
    /\ last' = NoOp
    /\ UNCHANGED <<EXTENSIONS, CONFIG_STORE, engine_eem, reg_order, locks,
                   arcs, store_vars, span_vars, engine_vars, conv_vars,
                   aux_vars>>

\* config::write(key, value)
Write ==
    \E t \in Threads, key \in ConfigKeys, value \in Values :
        /\ Cardinality((DOMAIN CONFIG_STORE) \cup Writing \cup {key})
             <= MaxStore
        /\ first_idle(t)
        /\ enter(t, << write_frame(key, value) >>)

\* EngineExtensionManager::set_option(key, value)
SetOption ==
    \E t \in Threads, key \in OptionKeys, value \in Values :
        /\ first_idle(t)
        /\ enter(t, << Frame("set_option", "read_lock", key, value,
                          "ok") >>)

\* EngineExtensionManager::set_option_with_store_update(key, value)
SetOptionWithStoreUpdate ==
    \E t \in Threads, key \in MirroredKeys, value \in Values :
        /\ first_idle(t)
        /\ enter(t, update_stack(key, value))

\* SQL statement SET probing.<key> = value on the engine session: the
\* query awaits ENGINE.read(), and the session hands <key> to the options
\* adapter registered under "probing"
SqlSet ==
    \E t \in Threads, key \in MirroredKeys, value \in Values :
        /\ engine_eem
        /\ first_idle(t)
        /\ enter(t, << Frame("query", "engine_read", key, value,
                          "set") >>)

\* EngineExtensionManager::get_option(key)
GetOption ==
    \E t \in Threads, key \in OptionKeys :
        /\ first_idle(t)
        /\ enter(t, << Frame("get_option", "read_lock", key, << >>,
                          "ok") >>)

\* EngineExtensionManager::call(path, params, body)
Call ==
    \E t \in Threads, path \in Paths, env \in CallEnvs :
        /\ first_idle(t)
        /\ enter(t, << Frame("call", "read_lock", path, << >>, env) >>)

\* the calls a thread can start.  env of a call is the outcome of its
\* handler: "panic" is a handler that panics, "set" is the code handed to
\* eval running probing.query("SET probing.test.option = 'new_value'"),
\* "select" the SELECT that the handler of trace/variables runs; env of a
\* query is the kind of its statement
ThreadCalls ==
    { Frame("register", "write_lock", r[1], << >>, "ok") :
        r \in Registrations }
    \cup { Frame("set_option", "read_lock",
                 <<"python", ".", "crash_handler">>, <<"new_value">>, "ok"),
           Frame("get_option", "read_lock", <<"test", ".", "option">>,
                 << >>, "ok"),
           Frame("options", "read_lock", << >>, << >>, "ok"),
           Frame("call", "read_lock", <<"/", "python", "/", "callstack">>,
                 << >>, "ok"),
           Frame("call", "read_lock", <<"/", "python", "/", "callstack">>,
                 << >>, "panic"),
           Frame("call", "read_lock", <<"/", "python", "/", "eval">>,
                 << >>, "set"),
           Frame("call", "read_lock",
                 <<"/", "python", "/", "trace/variables">>,
                 << >>, "select"),
           write_frame(<<"probing", ".", "test", ".", "option">>,
                       <<"new_value">>),
           write_frame(<<"test", ".", "option">>, <<"new_value">>),
           Frame("query", "engine_read", <<"test", ".", "option">>,
                 <<"new_value">>, "set") }

\* the registration a register call carries
registration(key) == CHOOSE r \in Registrations : r[1] = key

\* a thread enters the extension manager, config::write or a query
Begin ==
    \E t \in Threads, f \in ThreadCalls :
        /\ first_idle(t)
        /\ calls.n < MaxThreadCalls
        /\ f.op = "register" =>
             /\ arcs.n < MaxRegisters
             /\ Cardinality((DOMAIN EXTENSIONS) \cup Registering \cup {f.key})
                  <= MaxExts
        /\ threads' = [threads EXCEPT ![t] = <<f>>]
        /\ arcs' = [arcs EXCEPT !.n = IF f.op = "register" THEN @ + 1 ELSE @]
        /\ calls' = [calls EXCEPT !.n = @ + 1]
        /\ last' = NoOp
        /\ UNCHANGED <<EXTENSIONS, CONFIG_STORE, engine_eem, reg_order,
                       locks, store_vars, span_vars, engine_vars,
                       conv_vars, aux_vars>>

\* register: EXTENSIONS.write().unwrap().insert(name, extension), which
\* replaces the extension the registry holds under the name
ThreadRegister ==
    \E t \in Threads :
        /\ threads[t] # << >>
        /\ Top(threads[t]).op = "register"
        /\ Top(threads[t]).pc = "write_lock"
        /\ locks.registry = {}
        /\ LET r == registration(Top(threads[t]).key)
           IN  /\ EXTENSIONS' = insert(EXTENSIONS, r[1], r[2])
               /\ reg_order' = Append(Without(reg_order, r[1]), r[1])
               /\ arcs' = replaced(threads, arcs, EXTENSIONS, r[1])
               /\ last' = Op("register", r[1], << >>, Ok(<< >>), << >>)
        /\ threads' = [disturb(threads) EXCEPT ![t] = << >>]
        /\ UNCHANGED <<CONFIG_STORE, engine_eem, locks, calls,
                       store_vars, span_vars, engine_vars, conv_vars,
                       aux_vars>>

\* EXTENSIONS.read().unwrap()
RegistryRead ==
    \E t \in Threads :
        /\ threads[t] # << >>
        /\ Top(threads[t]).pc = "read_lock"
        /\ locks' = [locks EXCEPT !.registry = @ \cup {t}]
        /\ Proceed(t, SetTop(threads[t],
                             [Top(threads[t]) EXCEPT !.pc = "snapshot"]))
        /\ UNCHANGED <<EXTENSIONS, CONFIG_STORE, engine_eem, reg_order,
                       arcs, calls, store_vars, span_vars, engine_vars,
                       conv_vars, aux_vars>>

\* extensions.values().cloned().collect() and the end of the block
Snapshot ==
    \E t \in Threads :
        /\ threads[t] # << >>
        /\ Top(threads[t]).pc = "snapshot"
        /\ locks' = drop_registry_guard(locks, t)
        /\ LET snap == extensions_clone(EXTENSIONS)
               f == [Top(threads[t]) EXCEPT
                        !.snap = snap,
                        !.gens = [n \in 1..Len(snap) |-> arcs.gen[snap[n]]],
                        !.order = snap]
           IN  Proceed(t, SetTop(threads[t], advance(f, 1)))
        /\ arcs' = drop_unused(threads', arcs)
        /\ UNCHANGED <<EXTENSIONS, CONFIG_STORE, engine_eem, reg_order,
                       calls, store_vars, span_vars, engine_vars, conv_vars,
                       aux_vars>>

\* extension.lock().unwrap(): the thread waits until the mutex is free
ExtLock ==
    \E t \in Threads :
        /\ threads[t] # << >>
        /\ Top(threads[t]).pc \in ExtLockPcs
        /\ LET f == Top(threads[t])
               k == f.snap[f.i]
               g == f.gens[f.i]
           IN  /\ ext_free(locks, k, g)
               /\ ~object(k, g).poisoned
               /\ locks' = lock_ext(locks, k, t, g)
               /\ Proceed(t, SetTop(threads[t],
                                    [f EXCEPT !.pc =
                                        IF f.pc = "lock_name" THEN "name"
                                        ELSE "handler"]))
        /\ UNCHANGED <<EXTENSIONS, CONFIG_STORE, engine_eem, reg_order,
                       arcs, calls, store_vars, span_vars, engine_vars,
                       conv_vars, aux_vars>>

\* the stack of a thread that panics at the top of stack.  The lock() of
\* the blocking task of call panics inside the task: call sees
\* Err(JoinError) and goes on with the next extension.  A panic of the
\* thread that a call handler spawned for its query is caught by the
\* handler's join(): the handler returns.  Any other panic ends the task
unwind(stack) ==
    LET f == Top(stack)
        handlers == { n \in 1..(Len(stack) - 1) :
                        /\ stack[n].op = "call"
                        /\ stack[n].pc = "in_handler" }
    IN  IF f.op = "call" /\ f.pc = "lock_call"
        THEN SetTop(stack, advance(f, f.i + 1))
        ELSE IF handlers # {}
        THEN LET n == CHOOSE m \in handlers : \A o \in handlers : o <= m
             IN  SetTop(SubSeq(stack, 1, n),
                        Finished(stack[n], Ok(<< >>)))
        ELSE << >>

\* the locks of thread t after it panicked at the top of stack: the guards
\* of the engine handle are dropped by the unwinding, and the handler that
\* caught the panic returns, which drops the guard of its extension
unwound(l, t, stack) ==
    LET held == { h \in l.ext : h[2] = t }
    IN  IF Top(stack).op = "call" /\ Top(stack).pc = "lock_call"
        THEN l
        ELSE [l EXCEPT !.engine_readers = @ \ {t},
                       !.engine_writer = @ \ {t},
                       !.ext = @ \ held]

\* extension.lock().unwrap() on a mutex that is free and poisoned: lock()
\* returns the PoisonError and unwrap() panics.  A call of the thread
\* itself that ends by the panic is recorded with the outcome Panicked
ExtLockPoisoned ==
    \E t \in Threads :
        /\ threads[t] # << >>
        /\ Top(threads[t]).pc \in ExtLockPcs
        /\ LET f == Top(threads[t])
               k == f.snap[f.i]
               g == f.gens[f.i]
           IN  /\ ext_free(locks, k, g)
               /\ object(k, g).poisoned
        /\ locks' = unwound(locks, t, threads[t])
        /\ LET stack == unwind(threads[t])
           IN  IF stack = << >>
               THEN /\ threads' = [threads EXCEPT ![t] = << >>]
                    /\ last' = Returned(Finished(threads[t][1], Panicked))
               ELSE Proceed(t, stack)
        /\ arcs' = drop_unused(threads', arcs)
        /\ UNCHANGED <<EXTENSIONS, CONFIG_STORE, engine_eem, reg_order,
                       calls, store_vars, span_vars, engine_vars, conv_vars,
                       aux_vars>>

\* set_option and call: the block that reads ext.name() under the mutex
ExtName ==
    \E t \in Threads :
        /\ threads[t] # << >>
        /\ Top(threads[t]).pc = "name"
        /\ LET f == Top(threads[t])
               ext == object(f.snap[f.i], f.gens[f.i])
               matches ==
                   IF f.op = "set_option"
                   THEN starts_with(f.key, extract_namespace(ext.name))
                   ELSE starts_with(f.key, <<"/">> \o ext.name \o <<"/">>)
               f1 == IF ~matches
                     THEN advance([f EXCEPT !.skipped =
                                      @ \cup { f.snap[f.i] }], f.i + 1)
                     ELSE [f EXCEPT !.pc = IF f.op = "set_option"
                                           THEN "lock_set" ELSE "lock_call"]
           IN  /\ locks' = unlock_ext(locks, f.snap[f.i], t, f.gens[f.i])
               /\ Proceed(t, SetTop(threads[t], f1))
        /\ arcs' = drop_unused(threads', arcs)
        /\ UNCHANGED <<EXTENSIONS, CONFIG_STORE, engine_eem, reg_order,
                       calls, store_vars, span_vars, engine_vars, conv_vars,
                       aux_vars>>

\* set_option: ext.set(&local_key, value) under the mutex, then the match;
\* enable_ok is the outcome of the Python code the handler may run.
\* The handler writes the object of the snapshot, which is the registry's
\* unless register has replaced it since
SetHandler ==
    \E t \in Threads, enable_ok \in BOOLEAN :
        /\ threads[t] # << >>
        /\ Top(threads[t]).op = "set_option"
        /\ Top(threads[t]).pc = "handler"
        /\ LET f == Top(threads[t])
               k == f.snap[f.i]
               g == f.gens[f.i]
               extension == object(k, g)
               namespace == extract_namespace(extension.name)
               local_key == trim_start_matches(f.key, namespace)
               r == ext_set(extension, local_key, f.value, enable_ok)
               m == set_option_match(r.res)
               f0 == [f EXCEPT !.visited =
                         Append(@, Visit(k, extension.name, local_key, r.res,
                                         r.ext # extension))]
               f1 == IF m = "return_ok" THEN Finished(f0, Ok(<< >>))
                     ELSE IF m = "return_err" THEN Finished(f0, r.res)
                     ELSE advance(f0, f.i + 1)
           IN  /\ EXTENSIONS' = put_registered(EXTENSIONS, k, g, r.ext)
               /\ locks' = unlock_ext(locks, k, t, g)
               /\ Proceed(t, SetTop(threads[t], f1))
               /\ arcs' = drop_unused(threads',
                                      put_detached(arcs, k, g, r.ext))
        /\ UNCHANGED <<CONFIG_STORE, engine_eem, reg_order, calls,
                       store_vars, span_vars, engine_vars, conv_vars,
                       aux_vars>>

\* get_option: the body of the loop, all of it under the mutex
GetHandler ==
    \E t \in Threads :
        /\ threads[t] # << >>
        /\ Top(threads[t]).op = "get_option"
        /\ Top(threads[t]).pc = "handler"
        /\ \E keys \in iter_orders(object(Top(threads[t]).snap[Top(threads[t]).i],
                                          Top(threads[t]).gens[Top(threads[t]).i]).enabled) :
           LET f == Top(threads[t])
               k == f.snap[f.i]
               g == f.gens[f.i]
               ext == object(k, g)
               namespace == extract_namespace(ext.name)
               local_key == trim_start_matches(f.key, namespace)
               r == ext_get(ext, local_key, keys)
               f0 == [f EXCEPT !.visited =
                         Append(@, Visit(k, ext.name, local_key, r, FALSE))]
               f1 == IF ~starts_with(f.key, namespace)
                     THEN advance([f EXCEPT !.skipped = @ \cup {k}],
                                  f.i + 1)
                     ELSE IF r.ok THEN Finished(f0, r)
                     ELSE advance(f0, f.i + 1)
           IN  /\ locks' = unlock_ext(locks, k, t, g)
               /\ Proceed(t, SetTop(threads[t], f1))
        /\ arcs' = drop_unused(threads', arcs)
        /\ UNCHANGED <<EXTENSIONS, CONFIG_STORE, engine_eem, reg_order,
                       calls, store_vars, span_vars, engine_vars, conv_vars,
                       aux_vars>>

\* options: ext_guard.options() under the mutex
OptionsHandler ==
    \E t \in Threads :
        /\ threads[t] # << >>
        /\ Top(threads[t]).op = "options"
        /\ Top(threads[t]).pc = "handler"
        /\ LET f == Top(threads[t])
           IN  /\ locks' = unlock_ext(locks, f.snap[f.i], t, f.gens[f.i])
               /\ Proceed(t, SetTop(threads[t], advance(f, f.i + 1)))
        /\ arcs' = drop_unused(threads', arcs)
        /\ UNCHANGED <<EXTENSIONS, CONFIG_STORE, engine_eem, reg_order,
                       calls, store_vars, span_vars, engine_vars, conv_vars,
                       aux_vars>>

\* the handler of the call runs a statement through probing.query
runs_query(ext, local_path, env) ==
    /\ ext.kind = "python"
    /\ \/ local_path = <<"eval">> /\ env = "set"
       \/ local_path = <<"trace/variables">> /\ env = "select"

\* call: the blocking task runs block_on(ext.call(..)) under the mutex.
\* A handler that runs a statement waits for the query with the mutex
\* held.  A handler that panics unwinds the blocking task, which drops the
\* guard and poisons the mutex; call sees Err(JoinError)
CallHandler ==
    \E t \in Threads :
        /\ threads[t] # << >>
        /\ Top(threads[t]).op = "call"
        /\ Top(threads[t]).pc = "handler"
        /\ LET f == Top(threads[t])
               k == f.snap[f.i]
               g == f.gens[f.i]
               ext == object(k, g)
               local_path == DropPrefix(f.key, Len(ext.name) + 2)
               r == ext_call(ext, local_path, f.env)
               panicked == ~r.ok /\ r.err = "JoinError"
               ext1 == IF panicked THEN poison(ext) ELSE ext
               f0 == [f EXCEPT !.visited =
                         Append(@, Visit(k, ext.name, local_path, r,
                                         ext1 # ext))]
               f1 == IF call_match(r) = "return" THEN Finished(f0, r)
                     ELSE advance(f0, f.i + 1)
               q == Frame("query", "engine_read", <<"test", ".", "option">>,
                          <<"new_value">>, f.env)
           IN  IF runs_query(ext, local_path, f.env)
               THEN /\ Proceed(t, Append(SetTop(threads[t],
                                             [f EXCEPT !.pc = "in_handler"]),
                                         q))
                    /\ UNCHANGED <<locks, EXTENSIONS, arcs>>
               ELSE /\ locks' = unlock_ext(locks, k, t, g)
                    /\ Proceed(t, SetTop(threads[t], f1))
                    /\ EXTENSIONS' = put_registered(EXTENSIONS, k, g, ext1)
                    /\ arcs' = drop_unused(threads',
                                       put_detached(arcs, k, g, ext1))
        /\ UNCHANGED <<CONFIG_STORE, engine_eem, reg_order, calls,
                       store_vars, span_vars, engine_vars, conv_vars,
                       aux_vars>>

\* query_json: ENGINE.read().await, then async_query runs the statement; a
\* SET of an option under "probing" reaches ExtensionOptions::set
EngineRead ==
    \E t \in Threads :
        /\ threads[t] # << >>
        /\ Top(threads[t]).op = "query"
        /\ Top(threads[t]).pc = "engine_read"
        /\ locks.engine_writer = {}
        /\ locks' = [locks EXCEPT !.engine_readers = @ \cup {t}]
        /\ LET f == Top(threads[t])
               s == Frame("set_option", "read_lock", f.key, f.value, "ok")
           IN  Proceed(t, IF f.env = "set" /\ engine_eem
                          THEN Append(SetTop(threads[t],
                                          [f EXCEPT !.pc = "dispatching"]),
                                      s)
                          ELSE SetTop(threads[t],
                                      [f EXCEPT !.pc = "running"]))
        /\ UNCHANGED <<EXTENSIONS, CONFIG_STORE, engine_eem, reg_order,
                       arcs, calls, store_vars, span_vars, engine_vars,
                       conv_vars, aux_vars>>

\* the statement of a query that is no SET is done; the read guard of the
\* engine handle is dropped
QueryDone ==
    \E t \in Threads :
        /\ threads[t] # << >>
        /\ Top(threads[t]).op = "query"
        /\ Top(threads[t]).pc = "running"
        /\ locks' = [locks EXCEPT !.engine_readers = @ \ {t}]
        /\ Proceed(t, SetTop(threads[t],
                             Finished(Top(threads[t]), Ok(<< >>))))
        /\ UNCHANGED <<EXTENSIONS, CONFIG_STORE, engine_eem, reg_order,
                       arcs, calls, store_vars, span_vars, engine_vars,
                       conv_vars, aux_vars>>

\* config::write of a key that starts with "probing": ENGINE.write().await
\* and the lookup of the manager in the session configuration; the guard
\* lives to the end of the block
WriteEngineLock ==
    \E t \in Threads :
        /\ threads[t] # << >>
        /\ Top(threads[t]).op = "write"
        /\ Top(threads[t]).pc = "engine_lock"
        /\ locks.engine_writer = {}
        /\ locks.engine_readers = {}
        /\ LET f == Top(threads[t])
               s == Frame("set_option", "read_lock", extension_key(f.key),
                          f.value, "ok")
           IN  IF write_dispatches(f.key, engine_eem)
               THEN /\ locks' = [locks EXCEPT !.engine_writer = {t}]
                    /\ Proceed(t, Append(SetTop(threads[t],
                                             [f EXCEPT !.pc = "dispatching"]),
                                         s))
               ELSE /\ UNCHANGED locks
                    /\ Proceed(t, SetTop(threads[t],
                                         [f EXCEPT !.pc = "store"]))
        /\ UNCHANGED <<EXTENSIONS, CONFIG_STORE, engine_eem, reg_order,
                       arcs, calls, store_vars, span_vars, engine_vars,
                       conv_vars, aux_vars>>

\* set_option returns into config::write: the match on its result.  On Ok
\* the value is to be written to the store inside the block, with the
\* write guard of the engine handle alive; on UnsupportedOption the block
\* ends, which drops the guard, and the value is to be written behind it;
\* any other error is returned, which drops the guard
WriteReturn ==
    \E t \in Threads :
        /\ Len(threads[t]) > 1
        /\ Top(threads[t]).pc = "done"
        /\ Top(Pop(threads[t])).op = "write"
        /\ LET r == Top(threads[t])
               f == inherit(Top(Pop(threads[t])), r)
               m == write_match(r)
               f1 == IF m.sets
                     THEN [f EXCEPT !.pc = IF r.res.ok THEN "mirror"
                                           ELSE "store",
                                    !.res = m.res]
                     ELSE Finished(f, m.res)
           IN  /\ Proceed(t, SetTop(Pop(threads[t]), f1))
               /\ locks' = IF f1.pc = "mirror" THEN locks
                           ELSE [locks EXCEPT !.engine_writer = @ \ {t}]
        /\ UNCHANGED <<EXTENSIONS, CONFIG_STORE, engine_eem, reg_order,
                       arcs, calls, store_vars, span_vars, engine_vars,
                       conv_vars, aux_vars>>

\* config::write, the arm Ok of the match: set(key, value).await and
\* return Ok(()), which drops the write guard of the engine handle
WriteMirror ==
    \E t \in Threads :
        /\ threads[t] # << >>
        /\ Top(threads[t]).op = "write"
        /\ Top(threads[t]).pc = "mirror"
        /\ LET f == Top(threads[t])
           IN  /\ CONFIG_STORE' = set(CONFIG_STORE, f.key, f.value)
               /\ Proceed(t, SetTop(threads[t],
                                    Finished([f EXCEPT !.wrote = TRUE],
                                             f.res)))
        /\ locks' = [locks EXCEPT !.engine_writer = @ \ {t}]
        /\ UNCHANGED <<EXTENSIONS, engine_eem, reg_order, arcs, calls,
                       store_vars, span_vars, engine_vars, conv_vars,
                       aux_vars>>

\* config::write: set(key, value).await behind the block, and Ok(())
WriteStore ==
    \E t \in Threads :
        /\ threads[t] # << >>
        /\ Top(threads[t]).op = "write"
        /\ Top(threads[t]).pc = "store"
        /\ LET f == Top(threads[t])
           IN  /\ CONFIG_STORE' = set(CONFIG_STORE, f.key, f.value)
               /\ Proceed(t, SetTop(threads[t],
                                    Finished([f EXCEPT !.wrote = TRUE],
                                             f.res)))
        /\ UNCHANGED <<EXTENSIONS, engine_eem, reg_order, locks, arcs,
                       calls, store_vars, span_vars, engine_vars, conv_vars,
                       aux_vars>>

\* set_option returns into set_option_with_store_update: the ? operator
\* returns its error; behind it config::set(key, value) makes a future that
\* is dropped unpolled, which leaves CONFIG_STORE alone, and the function
\* returns Ok(())
UpdateReturn ==
    \E t \in Threads :
        /\ Len(threads[t]) > 1
        /\ Top(threads[t]).pc = "done"
        /\ Top(Pop(threads[t])).op = "set_option_with_store_update"
        /\ LET r == Top(threads[t])
               f == inherit(Top(Pop(threads[t])), r)
               u == set_option_with_store_update(r, CONFIG_STORE, f.key,
                                                 f.value)
           IN  /\ CONFIG_STORE' = u.store
               /\ Proceed(t, SetTop(Pop(threads[t]),
                                    Finished([f EXCEPT !.wrote =
                                                 u.store # CONFIG_STORE],
                                             u.res)))
        /\ UNCHANGED <<EXTENSIONS, engine_eem, reg_order, locks, arcs,
                       calls, store_vars, span_vars, engine_vars, conv_vars,
                       aux_vars>>

\* set_option returns into ExtensionOptions::set and the query is done
QueryReturn ==
    \E t \in Threads :
        /\ Len(threads[t]) > 1
        /\ Top(threads[t]).pc = "done"
        /\ Top(Pop(threads[t])).op = "query"
        /\ LET r == Top(threads[t])
               f == inherit(Top(Pop(threads[t])), r)
           IN  Proceed(t, SetTop(Pop(threads[t]),
                                 Finished(f, ExtensionOptions_set(r.res))))
        /\ locks' = [locks EXCEPT !.engine_readers = @ \ {t}]
        /\ UNCHANGED <<EXTENSIONS, CONFIG_STORE, engine_eem, reg_order,
                       arcs, calls, store_vars, span_vars, engine_vars,
                       conv_vars, aux_vars>>

\* the query returns into the call handler; the handler returns, the
\* blocking task drops the mutex and call matches on the result
CallReturn ==
    \E t \in Threads :
        /\ Len(threads[t]) > 1
        /\ Top(threads[t]).pc = "done"
        /\ Top(Pop(threads[t])).op = "call"
        /\ LET f == Top(Pop(threads[t]))
               k == f.snap[f.i]
               g == f.gens[f.i]
               f0 == [f EXCEPT !.visited =
                         Append(@, Visit(k, object(k, g).name,
                                         DropPrefix(f.key,
                                             Len(object(k, g).name) + 2),
                                         Ok(<< >>), FALSE))]
           IN  /\ locks' = unlock_ext(locks, k, t, g)
               /\ Proceed(t, SetTop(Pop(threads[t]),
                                    Finished(f0, Ok(<< >>))))
        /\ arcs' = drop_unused(threads', arcs)
        /\ UNCHANGED <<EXTENSIONS, CONFIG_STORE, engine_eem, reg_order,
                       calls, store_vars, span_vars, engine_vars, conv_vars,
                       aux_vars>>

\* the steps of set_option
SetSteps == RegistryRead \/ Snapshot \/ ExtLock \/ ExtName \/ SetHandler

Next ==
    \/ Register
    \/ InitializeEngine
    \/ BuildRegister
    \/ BuildEngine
    \/ Set
    \/ Remove
    \/ Clear
    \/ Write
    \/ SetOption
    \/ SetOptionWithStoreUpdate
    \/ SqlSet
    \/ GetOption
    \/ Call
    \/ RegistryRead
    \/ Snapshot
    \/ ExtLock
    \/ ExtLockPoisoned
    \/ ExtName
    \/ SetHandler
    \/ GetHandler
    \/ CallHandler
    \/ EngineRead
    \/ WriteEngineLock
    \/ WriteReturn
    \/ WriteMirror
    \/ WriteStore
    \/ UpdateReturn
    \/ QueryReturn

Spec == Init /\ [][Next]_vars

\* the engine was initialized from a builder without extensions: the
\* registry is empty and the session configuration carries the manager
InitMirror ==
    /\ InitBuilt(<< >>)
    /\ CONFIG_STORE = EmptyMap
    /\ InitThreads
    /\ InitStore
    /\ InitSpans
    /\ InitConv
    /\ InitIdle
    /\ InitNoTree

\* the engine handle is as constructed, without a manager in its session
\* configuration, or it was initialized
InitWrite == Init \/ InitMirror

\* the write-through API with registered extensions
NextWrite ==
    \/ Register
    \/ Write
    \/ WriteEngineLock
    \/ RegistryRead
    \/ Snapshot
    \/ ExtLock
    \/ ExtName
    \/ SetHandler
    \/ WriteReturn
    \/ WriteMirror
    \/ WriteStore

SpecWrite == InitWrite /\ [][NextWrite]_vars

\* the store holds an entry that an earlier call of config::set left
OlderStore == set(EmptyMap, <<"test", ".", "option">>, <<"older">>)

\* an initialized engine whose config store is empty or holds an older
\* entry
InitMirrorStore ==
    /\ InitBuilt(<< >>)
    /\ CONFIG_STORE \in { EmptyMap, OlderStore }
    /\ InitThreads
    /\ InitStore
    /\ InitSpans
    /\ InitConv
    /\ InitIdle
    /\ InitNoTree

\* option setting through the manager, with the store, on an initialized
\* engine
NextMirror ==
    \/ Register
    \/ SetOptionWithStoreUpdate
    \/ RegistryRead
    \/ Snapshot
    \/ ExtLock
    \/ ExtName
    \/ SetHandler
    \/ UpdateReturn

SpecMirror == InitMirrorStore /\ [][NextMirror]_vars

\* option setting through SQL, with the calls of the store, on an
\* initialized engine
NextSqlSet ==
    \/ Register
    \/ Set
    \/ Remove
    \/ Clear
    \/ SqlSet
    \/ EngineRead
    \/ RegistryRead
    \/ Snapshot
    \/ ExtLock
    \/ ExtName
    \/ SetHandler
    \/ QueryReturn

SpecSqlSet == InitMirror /\ [][NextSqlSet]_vars

\* the option dispatch loops
NextDispatch ==
    \/ Register
    \/ SetOption
    \/ GetOption
    \/ RegistryRead
    \/ Snapshot
    \/ ExtLock
    \/ ExtName
    \/ SetHandler
    \/ GetHandler

SpecDispatch == Init /\ [][NextDispatch]_vars

\* the call dispatch loop
NextCall ==
    \/ Register
    \/ Call
    \/ RegistryRead
    \/ Snapshot
    \/ ExtLock
    \/ ExtLockPoisoned
    \/ ExtName
    \/ CallHandler

SpecCall == Init /\ [][NextCall]_vars

TypeOK ==
    /\ DOMAIN EXTENSIONS \subseteq { r[1] : r \in Registrations }
    /\ Cardinality(DOMAIN EXTENSIONS) <= MaxExts
    /\ DOMAIN CONFIG_STORE \subseteq ConfigKeys \cup OptionKeys
    /\ Cardinality(DOMAIN CONFIG_STORE) <= MaxStore

\* every call of the threads, with the registrations of the threads
NextThreads ==
    \/ Begin
    \/ ThreadRegister
    \/ RegistryRead
    \/ Snapshot
    \/ ExtLock
    \/ ExtLockPoisoned
    \/ ExtName
    \/ SetHandler
    \/ GetHandler
    \/ OptionsHandler
    \/ CallHandler
    \/ EngineRead
    \/ QueryDone
    \/ WriteEngineLock
    \/ WriteStore
    \/ WriteReturn
    \/ WriteMirror
    \/ QueryReturn
    \/ CallReturn

\* the engine is initialized from a builder with the Python extension: the
\* extension is registered, its plugin enabled, and the session
\* configuration of the engine handle carries the manager
InitThreadsEngine ==
    /\ InitBuilt(<<PythonExt>>)
    /\ CONFIG_STORE = EmptyMap
    /\ InitThreads
    /\ InitStore
    /\ InitSpans
    /\ InitConv
    /\ InitIdle
    /\ InitNoTree

SpecThreads == InitThreadsEngine /\ [][NextThreads]_vars

(* ------------------- the config store of config/store.rs --------------- *)

\* the map without the keys of S
Without_keys(store, S) == [k \in (DOMAIN store) \ S |-> store[k]]

\* ConfigStore::get
ConfigStore_get(store, key) ==
    IF key \in DOMAIN store THEN Some(store[key]) ELSE None

\* variant: an existing entry keeps its value
ConfigStore_set_keep_existing(store, key, value) ==
    [k \in (DOMAIN store) \cup {key} |->
        IF k \in DOMAIN store THEN store[k] ELSE into(value)]

\* ConfigStore::set: BTreeMap::insert(key.to_string(), value.into())
ConfigStore_set(store, key, value) ==
    [k \in (DOMAIN store) \cup {key} |->
        IF k = key THEN into(value) ELSE store[k]]

\* ConfigStore::get_str
ConfigStore_get_str(store, key) ==
    IF key \notin DOMAIN store THEN None
    ELSE LET ele == store[key]
         IN  Some(CASE ele.t = "Text"     -> ele.v
                    [] ele.t = "BOOL"     -> IF ele.b THEN <<"True">>
                                                      ELSE <<"False">>
                    [] ele.t = "I32"      -> int_to_string(ele.n)
                    [] ele.t = "I64"      -> i64_to_string(ele.h, ele.n)
                    [] ele.t = "F32"      -> ele.v
                    [] ele.t = "F64"      -> ele.v
                    [] ele.t = "DataTime" -> int_to_string(ele.n)
                    [] ele.t = "Nil"      -> <<"nil">>
                    [] OTHER              -> ele.v)

\* ConfigStore::remove
ConfigStore_remove(store, key) ==
    [res |-> ConfigStore_get(store, key),
     store |-> Without_keys(store, {key})]

\* ConfigStore::clear
ConfigStore_clear(store) == EmptyMap

\* variant: the range starts behind the prefix
range_after(keys, prefix) ==
    SelectSeq(keys, LAMBDA k : StrLt(prefix, k))

\* BTreeMap::range(prefix..) on the keys in iteration order: the keys that
\* are not smaller than the prefix
range_from(keys, prefix) ==
    SelectSeq(keys, LAMBDA k : ~StrLt(k, prefix))

\* Iterator::take_while(|(k, _)| k.starts_with(prefix))
RECURSIVE take_while_starts_with(_, _)
take_while_starts_with(keys, prefix) ==
    IF keys = << >> THEN << >>
    ELSE IF starts_with(Head(keys), prefix)
    THEN <<Head(keys)>> \o take_while_starts_with(Tail(keys), prefix)
    ELSE << >>

\* ConfigStore::get_with_prefix: the entries of the returned BTreeMap in
\* iteration order
get_with_prefix(store, prefix) ==
    LET keys == take_while_starts_with(
                    range_from(SortedKeys(DOMAIN store), prefix), prefix)
        collected == { keys[i] : i \in 1..Len(keys) }
        order == SortedKeys(collected)
    IN  [i \in 1..Len(order) |-> <<order[i], store[order[i]]>>]

\* store.remove(key) for each key of the list
RECURSIVE remove_each(_, _)
remove_each(store, keys) ==
    IF keys = << >> THEN store
    ELSE remove_each(Without_keys(store, {Head(keys)}), Tail(keys))

\* variant: only the first key with the prefix is removed
remove_with_prefix_first(store, prefix) ==
    LET keys_to_remove ==
            SelectSeq(SortedKeys(DOMAIN store),
                      LAMBDA k : starts_with(k, prefix))
    IN  [store |-> remove_each(store, IF keys_to_remove = << >> THEN << >>
                                      ELSE <<Head(keys_to_remove)>>),
         n |-> Len(keys_to_remove)]

\* ConfigStore::remove_with_prefix
remove_with_prefix(store, prefix) ==
    LET keys_to_remove ==
            SelectSeq(SortedKeys(DOMAIN store),
                      LAMBDA k : starts_with(k, prefix))
    IN  [store |-> remove_each(store, keys_to_remove),
         n |-> Len(keys_to_remove)]

\* keys, prefixes and values handed to the store
StoreKeys ==
    { <<"torch">>, <<"torch", ".", "mode">>, <<"torch", ".", "profiling">>,
      <<"server", ".", "port">> }

Prefixes ==
    { << >>, <<"torch">>, <<"torch", ".">>, <<"server", ".">>, <<"test">> }

NativeValues ==
    { Native("str", <<"on">>, FALSE, 0),
      Native("String", <<"random">>, FALSE, 0),
      Native("bool", << >>, TRUE, 0), Native("bool", << >>, FALSE, 0),
      Native("i32", << >>, FALSE, 42), Native("i64", << >>, FALSE, 100),
      Native_i64(1, 42),
      Native("f32", <<"3.14">>, FALSE, 0),
      Native("f64", <<"2.718">>, FALSE, 0),
      NativeEle(Nil), NativeEle(Url(<<"http://localhost">>)),
      NativeEle(DataTime(1000000)) }

\* the record of a ConfigStore operation
StoreOp(op, key, res, entries, n) ==
    [op |-> op, key |-> key, res |-> res, entries |-> entries, n |-> n]

\* ConfigStore::set(key, value)
StoreSet ==
    \E key \in StoreKeys, value \in NativeValues :
        /\ Cardinality((DOMAIN ConfigStore) \cup {key}) <= MaxStore
        /\ ConfigStore' = ConfigStore_set(ConfigStore, key, value)
        /\ store_written' =
               [k \in (DOMAIN store_written) \cup {key} |->
                   IF k = key THEN value ELSE store_written[k]]
        /\ store_last' = StoreOp("set", key, None, << >>, 0)
        /\ UNCHANGED <<registry_vars, lock_vars, store_threads, store_lock,
                       store_hist, span_vars,
                       engine_vars, conv_vars,
                       aux_vars>>

\* ConfigStore::get(key)
StoreGet ==
    \E key \in StoreKeys :
        /\ store_last' = StoreOp("get", key, ConfigStore_get(ConfigStore, key),
                                 << >>, 0)
        /\ UNCHANGED <<registry_vars, lock_vars, ConfigStore, store_written,
                       store_threads, store_lock, store_hist, span_vars,
                       engine_vars, conv_vars,
                       aux_vars>>

\* ConfigStore::get_str(key)
StoreGetStr ==
    \E key \in StoreKeys :
        /\ store_last' = StoreOp("get_str", key,
                                 ConfigStore_get_str(ConfigStore, key),
                                 << >>, 0)
        /\ UNCHANGED <<registry_vars, lock_vars, ConfigStore, store_written,
                       store_threads, store_lock, store_hist, span_vars,
                       engine_vars, conv_vars,
                       aux_vars>>

\* ConfigStore::remove(key)
StoreRemove ==
    \E key \in StoreKeys :
        LET r == ConfigStore_remove(ConfigStore, key)
        IN  /\ ConfigStore' = r.store
            /\ store_written' = Without_keys(store_written, {key})
            /\ store_last' = StoreOp("remove", key, r.res, << >>, 0)
            /\ UNCHANGED <<registry_vars, lock_vars, store_threads,
                           store_lock, store_hist, span_vars,
                       engine_vars, conv_vars,
                       aux_vars>>

\* ConfigStore::clear()
StoreClear ==
    /\ ConfigStore' = ConfigStore_clear(ConfigStore)
    /\ store_written' = EmptyMap
    /\ store_last' = StoreOp("clear", << >>, None, << >>, 0)
    /\ UNCHANGED <<registry_vars, lock_vars, store_threads, store_lock,
                   store_hist, span_vars,
                       engine_vars, conv_vars,
                       aux_vars>>

\* ConfigStore::get_with_prefix(prefix)
StoreGetWithPrefix ==
    \E prefix \in Prefixes :
        /\ store_last' = StoreOp("get_with_prefix", prefix, None,
                                 get_with_prefix(ConfigStore, prefix), 0)
        /\ UNCHANGED <<registry_vars, lock_vars, ConfigStore, store_written,
                       store_threads, store_lock, store_hist, span_vars,
                       engine_vars, conv_vars,
                       aux_vars>>

\* ConfigStore::remove_with_prefix(prefix)
StoreRemoveWithPrefix ==
    \E prefix \in Prefixes :
        LET r == remove_with_prefix(ConfigStore, prefix)
        IN  /\ ConfigStore' = r.store
            /\ store_written' =
                   Without_keys(store_written,
                       { k \in DOMAIN store_written : starts_with(k, prefix) })
            /\ store_last' = StoreOp("remove_with_prefix", prefix, None,
                                     << >>, r.n)
            /\ UNCHANGED <<registry_vars, lock_vars, store_threads,
                           store_lock, store_hist, span_vars,
                       engine_vars, conv_vars,
                       aux_vars>>

NextStore ==
    \/ StoreSet
    \/ StoreGet
    \/ StoreGetStr
    \/ StoreRemove
    \/ StoreClear
    \/ StoreGetWithPrefix
    \/ StoreRemoveWithPrefix

SpecStore == Init /\ [][NextStore]_vars

(* --------------- threads in the config store of store.rs --------------- *)

\* A thread executes one ConfigStore operation at a time: it calls the
\* operation, takes the RwLock (read() or write()), acts on the map under
\* the guard, drops the guard and returns.  The history store_hist numbers
\* the writes of each key in the order in which they act on the map:
\* applied is the number of the latest one, returned the largest number of
\* a write whose call has returned, vals the value (if any) the key holds
\* after each write.

\* the entry of a key while BTreeMap::insert is rewriting it
Torn == [t |-> "Torn", v |-> << >>, b |-> FALSE, n |-> 0, h |-> 0]

NoWrites == [applied |-> 0, returned |-> 0, vals |-> << >>]

Hist(hist, k) == IF k \in DOMAIN hist THEN hist[k] ELSE NoWrites

\* the history after a write of key k that leaves it with the value val
\* (None after a removal)
record_write(hist, k, val) ==
    [j \in (DOMAIN hist) \cup {k} |->
        IF j = k
        THEN [applied |-> Hist(hist, k).applied + 1,
              returned |-> Hist(hist, k).returned,
              vals |-> Append(Hist(hist, k).vals, val)]
        ELSE hist[j]]

\* the history after the writes of the keys of the list, all removals
RECURSIVE record_removals(_, _)
record_removals(hist, keys) ==
    IF keys = << >> THEN hist
    ELSE record_removals(record_write(hist, Head(keys), None), Tail(keys))

\* the history after the calls of the writes numbered by vers returned
record_return(hist, vers) ==
    [j \in DOMAIN hist |->
        IF j \in DOMAIN vers /\ vers[j] > hist[j].returned
        THEN [hist[j] EXCEPT !.returned = vers[j]]
        ELSE hist[j]]

\* variant: read() succeeds while a writer holds the lock
read_lock_free_despite_writer(l) == TRUE

\* RwLock::read() succeeds when no writer holds the lock
read_lock_free(l) == l.writer = {}

\* RwLock::write() succeeds when nobody holds the lock
write_lock_free(l) == l.writer = {} /\ l.readers = {}

\* keys, prefixes and values of the operations of the threads
ConcKeys == { <<"torch", ".", "mode">>, <<"server", ".", "port">> }

ConcPrefixes == { << >>, <<"torch", ".">> }

ConcValues == { Native("str", <<"on">>, FALSE, 0),
                Native("i32", << >>, FALSE, 42) }

\* an operation in progress
StoreCall(op, key, value) ==
    [op |-> op, key |-> key, value |-> value, pc |-> "lock",
     res |-> None, n |-> 0, floor |-> 0, ver |-> 0, vers |-> EmptyMap,
     pre |-> {}, rewritten |-> {}]

StoreCalls ==
    { StoreCall("set", k, v) : k \in ConcKeys, v \in ConcValues }
    \cup { StoreCall(op, k, Native("str", << >>, FALSE, 0)) :
             op \in { "get", "remove" }, k \in ConcKeys }
    \cup { StoreCall("remove_with_prefix", p, Native("str", << >>, FALSE, 0)) :
             p \in ConcPrefixes }

\* the number of operations in progress that have yet to write
pending_writes ==
    Cardinality({ t \in Threads :
                    /\ store_threads[t] # << >>
                    /\ store_threads[t][1].pc # "return"
                    /\ store_threads[t][1].op # "get" })

\* the number of writes in the history of the keys of the list
RECURSIVE writes_applied(_, _)
writes_applied(hist, keys) ==
    IF keys = << >> THEN 0
    ELSE hist[Head(keys)].applied + writes_applied(hist, Tail(keys))

\* the keys that operations in progress are setting
pending_sets ==
    { store_threads[t][1].key :
        t \in { u \in Threads : /\ store_threads[u] # << >>
                                /\ store_threads[u][1].op = "set" } }

\* a thread calls an operation
StoreInvoke ==
    \E t \in Threads, c \in StoreCalls :
        /\ store_threads[t] = << >>
        /\ writes_applied(store_hist, SortedKeys(DOMAIN store_hist))
             + pending_writes + (IF c.op = "get" THEN 0 ELSE 1) <= MaxWrites
        /\ c.op = "set" =>
               Cardinality((DOMAIN ConfigStore) \cup pending_sets
                           \cup {c.key}) <= MaxStore
        /\ store_threads' = [store_threads EXCEPT ![t] =
               << [c EXCEPT
                     !.floor = Hist(store_hist, c.key).returned,
                     !.pre = IF c.op = "remove_with_prefix"
                             THEN { k \in DOMAIN ConfigStore :
                                      starts_with(k, c.key) }
                             ELSE {}] >>]
        /\ UNCHANGED <<registry_vars, lock_vars, ConfigStore, store_last,
                       store_written, store_lock, store_hist, span_vars,
                       engine_vars, conv_vars,
                       aux_vars>>

\* CONFIG_STORE.read().unwrap() / CONFIG_STORE.write().unwrap()
StoreAcquire ==
    \E t \in Threads :
        /\ store_threads[t] # << >>
        /\ store_threads[t][1].pc = "lock"
        /\ IF store_threads[t][1].op = "get"
           THEN /\ read_lock_free(store_lock)
                /\ store_lock' = [store_lock EXCEPT !.readers = @ \cup {t}]
           ELSE /\ write_lock_free(store_lock)
                /\ store_lock' = [store_lock EXCEPT !.writer = {t}]
        /\ store_threads' = [store_threads EXCEPT ![t][1].pc = "locked"]
        /\ UNCHANGED <<registry_vars, lock_vars, ConfigStore, store_last,
                       store_written, store_hist, span_vars,
                       engine_vars, conv_vars,
                       aux_vars>>

\* ConfigStore::get under the read guard
StoreGetLocked ==
    \E t \in Threads :
        /\ store_threads[t] # << >>
        /\ store_threads[t][1].op = "get"
        /\ store_threads[t][1].pc = "locked"
        /\ store_threads' = [store_threads EXCEPT
               ![t][1].res = ConfigStore_get(ConfigStore,
                                             store_threads[t][1].key),
               ![t][1].ver = Hist(store_hist,
                                  store_threads[t][1].key).applied,
               ![t][1].pc = "return"]
        /\ store_lock' = [store_lock EXCEPT !.readers = @ \ {t}]
        /\ UNCHANGED <<registry_vars, lock_vars, ConfigStore, store_last,
                       store_written, store_hist, span_vars,
                       engine_vars, conv_vars,
                       aux_vars>>

\* ConfigStore::set under the write guard: insert starts to rewrite the
\* entry of the key
StoreInsertBegin ==
    \E t \in Threads :
        /\ store_threads[t] # << >>
        /\ store_threads[t][1].op = "set"
        /\ store_threads[t][1].pc = "locked"
        /\ ConfigStore' =
               [k \in (DOMAIN ConfigStore) \cup {store_threads[t][1].key} |->
                   IF k = store_threads[t][1].key THEN Torn
                                                  ELSE ConfigStore[k]]
        /\ store_threads' =
               [u \in Threads |->
                   IF u = t
                   THEN << [store_threads[t][1] EXCEPT !.pc = "inserting"] >>
                   ELSE IF store_threads[u] = << >> THEN << >>
                   ELSE << [store_threads[u][1] EXCEPT
                              !.rewritten = @ \cup {store_threads[t][1].key}] >>]
        /\ UNCHANGED <<registry_vars, lock_vars, store_last, store_written,
                       store_lock, store_hist, span_vars,
                       engine_vars, conv_vars,
                       aux_vars>>

\* ConfigStore::set: insert is done and the write guard is dropped
StoreInsertEnd ==
    \E t \in Threads :
        /\ store_threads[t] # << >>
        /\ store_threads[t][1].pc = "inserting"
        /\ LET c == store_threads[t][1]
               hist == record_write(store_hist, c.key, Some(into(c.value)))
           IN  /\ ConfigStore' = ConfigStore_set(ConfigStore, c.key, c.value)
               /\ store_hist' = hist
               /\ store_threads' = [store_threads EXCEPT
                      ![t][1].vers = [k \in {c.key} |-> hist[c.key].applied],
                      ![t][1].pc = "return"]
        /\ store_lock' = [store_lock EXCEPT !.writer = {}]
        /\ UNCHANGED <<registry_vars, lock_vars, store_last, store_written,
                       span_vars,
                       engine_vars, conv_vars,
                       aux_vars>>

\* ConfigStore::remove under the write guard
StoreRemoveLocked ==
    \E t \in Threads :
        /\ store_threads[t] # << >>
        /\ store_threads[t][1].op = "remove"
        /\ store_threads[t][1].pc = "locked"
        /\ LET c == store_threads[t][1]
               r == ConfigStore_remove(ConfigStore, c.key)
               hist == record_write(store_hist, c.key, None)
           IN  /\ ConfigStore' = r.store
               /\ store_hist' = hist
               /\ store_threads' = [store_threads EXCEPT
                      ![t][1].res = r.res,
                      ![t][1].vers = [k \in {c.key} |-> hist[c.key].applied],
                      ![t][1].pc = "return"]
        /\ store_lock' = [store_lock EXCEPT !.writer = {}]
        /\ UNCHANGED <<registry_vars, lock_vars, store_last, store_written,
                       span_vars,
                       engine_vars, conv_vars,
                       aux_vars>>

\* ConfigStore::remove_with_prefix, all of it under the write guard
StoreRemoveWithPrefixLocked ==
    \E t \in Threads :
        /\ store_threads[t] # << >>
        /\ store_threads[t][1].op = "remove_with_prefix"
        /\ store_threads[t][1].pc = "locked"
        /\ LET c == store_threads[t][1]
               r == remove_with_prefix(ConfigStore, c.key)
               removed == (DOMAIN ConfigStore) \ (DOMAIN r.store)
               hist == record_removals(store_hist, SortedKeys(removed))
           IN  /\ ConfigStore' = r.store
               /\ store_hist' = hist
               /\ store_threads' = [store_threads EXCEPT
                      ![t][1].n = r.n,
                      ![t][1].vers = [k \in removed |-> hist[k].applied],
                      ![t][1].pc = "return"]
        /\ store_lock' = [store_lock EXCEPT !.writer = {}]
        /\ UNCHANGED <<registry_vars, lock_vars, store_last, store_written,
                       span_vars,
                       engine_vars, conv_vars,
                       aux_vars>>

\* the operation returns to its caller
StoreReturn ==
    \E t \in Threads :
        /\ store_threads[t] # << >>
        /\ store_threads[t][1].pc = "return"
        /\ store_hist' = record_return(store_hist, store_threads[t][1].vers)
        /\ store_threads' = [store_threads EXCEPT ![t] = << >>]
        /\ UNCHANGED <<registry_vars, lock_vars, ConfigStore, store_last,
                       store_written, store_lock, span_vars,
                       engine_vars, conv_vars,
                       aux_vars>>

NextStoreThreads ==
    \/ StoreInvoke
    \/ StoreAcquire
    \/ StoreGetLocked
    \/ StoreInsertBegin
    \/ StoreInsertEnd
    \/ StoreRemoveLocked
    \/ StoreRemoveWithPrefixLocked
    \/ StoreReturn

SpecStoreThreads == Init /\ [][NextStoreThreads]_vars

(* ----------------------- the spans of trace/span.rs -------------------- *)

\* The two counters are AtomicU64; a constructor takes its identifiers with
\* fetch_add(1, Relaxed), one atomic step per counter.  The counters wrap
\* at 2^64, which MaxSpans keeps out of reach.  spans holds the spans in
\* the order in which their constructors returned; begun, which is not a
\* field of the struct, is the number of spans that existed when the
\* constructor was called, so that span a was created before span b in
\* program order when a is among the first b.begun spans.

\* variant: the counter is left as it was
fetch_add_nothing(counter, val) == counter

\* AtomicU64::fetch_add: the new value of the counter (the call returns the
\* previous one)
fetch_add(counter, val) == counter + val

\* SpanStatus::from_end_time
from_end_time(end_time) ==
    IF end_time # None THEN "Completed" ELSE "Active"

\* Span::status
status(span) == from_end_time(span.end)

\* the struct built by Span::new_root; start is the reading of
\* Timestamp::now()
new_root(name, trace_id, span_id, thread_id, start, begun) ==
    [trace_id |-> trace_id, span_id |-> span_id, parent_id |-> None,
     thread_id |-> thread_id, name |-> name, start |-> start, end |-> None,
     attrs |-> << >>, events |-> << >>, begun |-> begun]

\* variant: the child is built without the link to its parent
new_child_unlinked(parent, name, span_id, thread_id, start, begun) ==
    [trace_id |-> parent.trace_id, span_id |-> span_id, parent_id |-> None,
     thread_id |-> thread_id, name |-> name, start |-> start, end |-> None,
     attrs |-> << >>, events |-> << >>, begun |-> begun]

\* the struct built by Span::new_child
new_child(parent, name, span_id, thread_id, start, begun) ==
    [trace_id |-> parent.trace_id, span_id |-> span_id,
     parent_id |-> Some(parent.span_id),
     thread_id |-> thread_id, name |-> name, start |-> start, end |-> None,
     attrs |-> << >>, events |-> << >>, begun |-> begun]

\* the readings of Timestamp::now() while the threads build their spans;
\* the identifiers do not depend on the reading
SpanClock == { 0 }

\* a constructor in progress: parent is the position of the parent in
\* spans (0 for new_root)
SpanCall(op, parent, begun) ==
    [op |-> op, pc |-> IF op = "new_root" THEN "trace_id" ELSE "span_id",
     parent |-> parent, trace_id |-> 0, begun |-> begun]

\* the number of spans built or under construction
spans_begun ==
    Len(spans) + Cardinality({ t \in Threads : span_threads[t] # << >> })

\* a thread calls Span::new_root
SpanNewRoot ==
    \E t \in Threads :
        /\ span_threads[t] = << >>
        /\ spans_begun < MaxSpans
        /\ span_threads' = [span_threads EXCEPT ![t] =
               << SpanCall("new_root", 0, Len(spans)) >>]
        /\ UNCHANGED <<registry_vars, lock_vars, store_vars, engine_vars,
                       conv_vars, NEXT_TRACE_ID,
                       NEXT_SPAN_ID, spans, span_last, trace_event,
                       aux_vars>>

\* a thread calls Span::new_child(&parent, ..)
SpanNewChild ==
    \E t \in Threads, p \in 1..Len(spans) :
        /\ span_threads[t] = << >>
        /\ spans_begun < MaxSpans
        /\ span_threads' = [span_threads EXCEPT ![t] =
               << SpanCall("new_child", p, Len(spans)) >>]
        /\ UNCHANGED <<registry_vars, lock_vars, store_vars, engine_vars,
                       conv_vars, NEXT_TRACE_ID,
                       NEXT_SPAN_ID, spans, span_last, trace_event,
                       aux_vars>>

\* new_root: let trace_id = NEXT_TRACE_ID.fetch_add(1, Relaxed)
SpanTakeTraceId ==
    \E t \in Threads :
        /\ span_threads[t] # << >>
        /\ span_threads[t][1].pc = "trace_id"
        /\ span_threads' = [span_threads EXCEPT
               ![t][1].trace_id = NEXT_TRACE_ID,
               ![t][1].pc = "span_id"]
        /\ NEXT_TRACE_ID' = fetch_add(NEXT_TRACE_ID, 1)
        /\ UNCHANGED <<registry_vars, lock_vars, store_vars, engine_vars,
                       conv_vars, NEXT_SPAN_ID,
                       spans, span_last, trace_event,
                       aux_vars>>

\* let span_id = NEXT_SPAN_ID.fetch_add(1, Relaxed), and the struct is
\* built and returned
SpanTakeSpanId ==
    \E t \in Threads :
        /\ span_threads[t] # << >>
        /\ span_threads[t][1].pc = "span_id"
        /\ \E now \in SpanClock :
             LET c == span_threads[t][1]
             IN  spans' = Append(spans,
                   IF c.op = "new_root"
                   THEN new_root("work", c.trace_id, NEXT_SPAN_ID, t, now,
                                 c.begun)
                   ELSE new_child(spans[c.parent], "step", NEXT_SPAN_ID, t,
                                  now, c.begun))
        /\ NEXT_SPAN_ID' = fetch_add(NEXT_SPAN_ID, 1)
        /\ span_threads' = [span_threads EXCEPT ![t] = << >>]
        /\ UNCHANGED <<registry_vars, lock_vars, store_vars, engine_vars,
                       conv_vars, NEXT_TRACE_ID,
                       span_last, trace_event,
                       aux_vars>>

\* Span::finish, on a span that no constructor has borrowed as parent
SpanFinish ==
    \E i \in 1..Len(spans) :
        /\ \A t \in Threads :
               span_threads[t] # << >> => span_threads[t][1].parent # i
        /\ \E now \in SpanClock :
               spans' = [spans EXCEPT ![i].end = Some(now)]
        /\ spans' # spans
        /\ UNCHANGED <<registry_vars, lock_vars, store_vars, engine_vars,
                       conv_vars, NEXT_TRACE_ID,
                       NEXT_SPAN_ID, span_threads, span_last, trace_event,
                       aux_vars>>

NextSpans ==
    \/ SpanNewRoot
    \/ SpanNewChild
    \/ SpanTakeTraceId
    \/ SpanTakeSpanId
    \/ SpanFinish

SpecSpans == Init /\ [][NextSpans]_vars

(* ------------------- the life of a span (trace/span.rs) ---------------- *)

\* Timestamp::now() reads the system clock, which may be set back between
\* two readings: a reading is either value of Clock, the earlier or the
\* later one.
Clock == { 0, 1 }

\* Timestamp::duration_since
duration_since(self, earlier) ==
    IF self > earlier THEN self - earlier ELSE 0

\* attr(key, value): Attribute(key.into(), value.into())
attr(key, value) == [key |-> key, value |-> into(value)]

\* the outcome of a method that takes &mut self: the span it leaves and
\* what it returns
Outcome(span, res) == [span |-> span, res |-> res]

\* variant: the attribute is pushed whether the span has ended or not
add_attr_unchecked(self, key, value) ==
    Outcome([self EXCEPT !.attrs = Append(@, attr(key, value))], "Ok")

\* Span::add_attr
add_attr(self, key, value) ==
    IF self.end # None
    THEN Outcome(self, "SpanAlreadyClosed")
    ELSE Outcome([self EXCEPT !.attrs = Append(@, attr(key, value))], "Ok")

\* variant: the event is pushed only once the span has ended
add_event_when_ended(self, name, attributes, now) ==
    IF self.end = None
    THEN Outcome(self, "SpanAlreadyClosed")
    ELSE Outcome([self EXCEPT !.events = Append(@,
                     [name |-> name, timestamp |-> now,
                      attributes |-> IF attributes = None THEN << >>
                                     ELSE CHOOSE a \in attributes : TRUE])],
                 "Ok")

\* Span::add_event: attributes is an Option<Vec<Attribute>>
add_event(self, name, attributes, now) ==
    IF self.end # None
    THEN Outcome(self, "SpanAlreadyClosed")
    ELSE Outcome([self EXCEPT !.events = Append(@,
                     [name |-> name, timestamp |-> now,
                      attributes |-> IF attributes = None THEN << >>
                                     ELSE CHOOSE a \in attributes : TRUE])],
                 "Ok")

\* Span::finish: self.end = Some(Timestamp::now())
finish(self, now) == Outcome([self EXCEPT !.end = Some(now)], "")

\* Span::end and Span::end_success
Span_end(self, now) == finish(self, now)

end_success(self, now) == Span_end(self, now)

\* variant: the span is finished before the message is recorded
end_error_finish_first(self, error_message, now) ==
    IF error_message # None
    THEN Outcome(add_attr(finish(self, now).span, "error.message",
                          Native("String",
                                 CHOOSE m \in error_message : TRUE,
                                 FALSE, 0)).span, "")
    ELSE finish(self, now)

\* Span::end_error: error_message is an Option<String>; the result of
\* add_attr is dropped
end_error(self, error_message, now) ==
    IF error_message # None
    THEN finish(add_attr(self, "error.message",
                         Native("String", CHOOSE m \in error_message : TRUE,
                                FALSE, 0)).span, now)
    ELSE finish(self, now)

\* Span::duration
duration(self) ==
    IF self.end = None THEN None
    ELSE Some(duration_since(CHOOSE et \in self.end : TRUE, self.start))

\* Span::is_ended
is_ended(self) == self.end # None

\* the rows of the buffer, none when there is no buffer
buffer_rows(buffer) == IF buffer = None THEN << >> ELSE unwrap(buffer)

\* names, keys, values and messages handed to the methods
AttrKeys == { "k" }

AttrValue == Native("str", <<"on">>, FALSE, 0)

ErrorMessages == { None, Some(<<"nosuch">>) }

\* the latest operation: its name, the position of its span in spans, what
\* it returned, and the number of operations so far
SpanOp(op, i, res) ==
    [op |-> op, span |-> i, res |-> res, n |-> span_last.n + 1]

\* Span::new_root
LifeNewRoot ==
    \E now \in Clock :
        /\ span_last.n < MaxSpanOps
        /\ Len(spans) < MaxLifeSpans
        /\ LET span == new_root("work", NEXT_TRACE_ID, NEXT_SPAN_ID, "t1",
                                now, Len(spans))
           IN  spans' = Append(spans, span)
        /\ NEXT_TRACE_ID' = fetch_add(NEXT_TRACE_ID, 1)
        /\ NEXT_SPAN_ID' = fetch_add(NEXT_SPAN_ID, 1)
        /\ span_last' = SpanOp("new_root", Len(spans) + 1, "")
        /\ UNCHANGED <<registry_vars, lock_vars, store_vars, engine_vars,
                       conv_vars, span_threads, trace_event,
                       aux_vars>>

\* Span::new_child
LifeNewChild ==
    \E now \in Clock, p \in 1..Len(spans) :
        /\ span_last.n < MaxSpanOps
        /\ Len(spans) < MaxLifeSpans
        /\ LET span == new_child(spans[p], "step", NEXT_SPAN_ID, "t1", now,
                                 Len(spans))
           IN  spans' = Append(spans, span)
        /\ NEXT_SPAN_ID' = fetch_add(NEXT_SPAN_ID, 1)
        /\ span_last' = SpanOp("new_child", Len(spans) + 1, "")
        /\ UNCHANGED <<registry_vars, lock_vars, store_vars, engine_vars,
                       conv_vars, NEXT_TRACE_ID,
                       span_threads, trace_event,
                       aux_vars>>

\* span.add_attr(key, value)
LifeAddAttr ==
    \E i \in 1..Len(spans), key \in AttrKeys :
        /\ span_last.n < MaxSpanOps
        /\ LET r == add_attr(spans[i], key, AttrValue)
           IN  /\ spans' = [spans EXCEPT ![i] = r.span]
               /\ span_last' = SpanOp("add_attr", i, r.res)
        /\ UNCHANGED <<registry_vars, lock_vars, store_vars, engine_vars,
                       conv_vars, NEXT_TRACE_ID,
                       NEXT_SPAN_ID, span_threads, trace_event,
                       aux_vars>>

\* span.add_event("mid", None)
LifeAddEvent ==
    \E i \in 1..Len(spans), now \in Clock :
        /\ span_last.n < MaxSpanOps
        /\ LET r == add_event(spans[i], "mid", None, now)
           IN  /\ spans' = [spans EXCEPT ![i] = r.span]
               /\ span_last' = SpanOp("add_event", i, r.res)
        /\ UNCHANGED <<registry_vars, lock_vars, store_vars, engine_vars,
                       conv_vars, NEXT_TRACE_ID,
                       NEXT_SPAN_ID, span_threads,
                       trace_event,
                       aux_vars>>

\* span.finish(), span.end() and span.end_success()
LifeFinish ==
    \E i \in 1..Len(spans), now \in Clock :
        /\ span_last.n < MaxSpanOps
        /\ LET r == end_success(spans[i], now)
           IN  /\ spans' = [spans EXCEPT ![i] = r.span]
               /\ span_last' = SpanOp("finish", i, r.res)
        /\ UNCHANGED <<registry_vars, lock_vars, store_vars, engine_vars,
                       conv_vars, NEXT_TRACE_ID,
                       NEXT_SPAN_ID, span_threads,
                       trace_event,
                       aux_vars>>

\* span.end_error(error_message)
LifeEndError ==
    \E i \in 1..Len(spans), now \in Clock, msg \in ErrorMessages :
        /\ span_last.n < MaxSpanOps
        /\ LET r == end_error(spans[i], msg, now)
           IN  /\ spans' = [spans EXCEPT ![i] = r.span]
               /\ span_last' =
                      SpanOp(IF msg = None THEN "end_error(None)"
                                           ELSE "end_error(Some)", i, r.res)
        /\ UNCHANGED <<registry_vars, lock_vars, store_vars, engine_vars,
                       conv_vars, NEXT_TRACE_ID,
                       NEXT_SPAN_ID, span_threads,
                       trace_event,
                       aux_vars>>

NextSpanLife ==
    \/ LifeNewRoot
    \/ LifeNewChild
    \/ LifeAddAttr
    \/ LifeAddEvent
    \/ LifeFinish
    \/ LifeEndError

\* the tracing core alone, or with an empty trace buffer attached to it
InitSpanLife ==
    /\ EXTENSIONS = EmptyMap
    /\ CONFIG_STORE = EmptyMap
    /\ engine_eem = FALSE
    /\ reg_order = << >>
    /\ last = Op("init", << >>, << >>, Ok(<< >>), << >>)
    /\ InitThreads
    /\ InitStore
    /\ InitNoSpans
    /\ trace_event \in { None, Some(<< >>) }
    /\ InitEngine
    /\ InitConv
    /\ InitAux
    /\ InitNoTree

SpecSpanLife == InitSpanLife /\ [][NextSpanLife]_vars

(* ----------------------- the query engine (engine.rs) ------------------ *)

\* the rows of a batch
num_rows(batch) == IF batch = << >> THEN 0 ELSE Len(batch[1])

\* the values of a column at the rows whose flag is set
RECURSIVE take_rows(_, _)
take_rows(column, flags) ==
    IF column = << >> THEN << >>
    ELSE (IF Head(flags) THEN << Head(column) >> ELSE << >>)
         \o take_rows(Tail(column), Tail(flags))

\* a batch filtered by "id > k", id being its first column
filter_batch(batch, k) ==
    LET flags == [i \in 1..num_rows(batch) |-> batch[1][i] > k]
    IN  [j \in 1..Len(batch) |-> take_rows(batch[j], flags)]

\* the filter operator passes on the batches that keep a row
RECURSIVE filter_batches(_, _)
filter_batches(batches, k) ==
    IF batches = << >> THEN << >>
    ELSE LET b == filter_batch(Head(batches), k)
         IN  (IF num_rows(b) > 0 THEN << b >> ELSE << >>)
             \o filter_batches(Tail(batches), k)

\* the catalog of the engine (engine.rs 250-257, 339-346)
ProbeCatalog == "probe"

\* the tables the information schema lists of itself
InformationSchemaTables ==
    << "tables", "views", "columns", "df_settings", "schemata",
       "routines", "parameters" >>

\* the tables of the context, by schema and name, in order
RECURSIVE table_rows(_, _)
table_rows(ctx, schemas) ==
    IF schemas = << >> THEN << >>
    ELSE LET s == Head(schemas)
             names == CHOOSE q \in [1..Cardinality(DOMAIN ctx[s]) ->
                                        DOMAIN ctx[s]] :
                          \A i, j \in DOMAIN q : i # j => q[i] # q[j]
         IN  [i \in DOMAIN names |-> <<s, names[i]>>]
             \o table_rows(ctx, Tail(schemas))

\* the queries handed to the engine
Scan(namespace, table) ==
    [kind |-> "scan", namespace |-> namespace, table |-> table, k |-> 0]

Filter(namespace, table, k) ==
    [kind |-> "filter", namespace |-> namespace, table |-> table, k |-> k]

Literal(kind) == [kind |-> kind, namespace |-> "", table |-> "", k |-> 0]

EngineQueries ==
    { Scan("ns", "t"), Scan("ns", "u"), Scan("test", "empty_table"),
      Scan("nonexistent_namespace", "nonexistent_table"),
      Filter("ns", "t", 1), Filter("ns", "t", 100),
      Literal("select 1"), Literal("select 1 where 1=0"),
      Literal("show tables") }

\* Engine::sql(query): the planner resolves the table the query names in
\* the catalog as it is now and keeps its provider in the plan, or fails;
\* the listing of the tables is planned as a scan of the information
\* schema, which reads the catalog when it is executed
sql(ctx, query) ==
    CASE query.kind \in { "select 1", "select 1 where 1=0", "show tables" } ->
             Ok([NoPlan EXCEPT !.kind = query.kind])
      [] OTHER ->
             IF \/ query.namespace \notin DOMAIN ctx
                \/ query.table \notin DOMAIN ctx[query.namespace]
             THEN Err("DataFusionError", query.table)
             ELSE LET provider == ctx[query.namespace][query.table]
                  IN  Ok([kind |-> query.kind, schema |-> provider.schema,
                          batches |-> provider.batches, k |-> query.k])

\* DataFrame::collect: the plan is executed; the schema and the batches of
\* the result.  The listing of the tables is the scan of
\* information_schema.tables (enabled at engine.rs 178, 347): the columns
\* table_catalog, table_schema, table_name, table_type, one row per table
\* of the catalog "probe" and one per table of the information schema
DataFrame_collect(ctx, plan) ==
    CASE plan.kind = "select 1" ->
             Ok([schema |-> << Field("Int64(1)", "Int64") >>,
                 batches |-> << << <<1>> >> >>])
      [] plan.kind = "select 1 where 1=0" ->
             Ok([schema |-> << Field("Int64(1)", "Int64") >>,
                 batches |-> << >>])
      [] plan.kind = "show tables" ->
             LET schemas == CHOOSE q \in [1..Cardinality(DOMAIN ctx) ->
                                             DOMAIN ctx] :
                                \A i, j \in DOMAIN q : i # j => q[i] # q[j]
                 base == table_rows(ctx, schemas)
                 rows == [i \in DOMAIN base |->
                             <<ProbeCatalog, base[i][1], base[i][2],
                               "BASE TABLE">>]
                         \o [i \in DOMAIN InformationSchemaTables |->
                                <<ProbeCatalog, "information_schema",
                                  InformationSchemaTables[i], "VIEW">>]
             IN  Ok([schema |-> << Field("table_catalog", "Utf8"),
                                   Field("table_schema", "Utf8"),
                                   Field("table_name", "Utf8"),
                                   Field("table_type", "Utf8") >>,
                     batches |-> << [j \in 1..4 |->
                                       [i \in DOMAIN rows |-> rows[i][j]]]
                                 >>])
      [] OTHER ->
             Ok([schema |-> plan.schema,
                 batches |-> IF plan.kind = "scan" THEN plan.batches
                             ELSE filter_batches(plan.batches, plan.k)])

\* arrow::compute::concat_batches
RECURSIVE concat_column(_, _)
concat_column(batches, j) ==
    IF batches = << >> THEN << >>
    ELSE Head(batches)[j] \o concat_column(Tail(batches), j)

concat_batches(schema, batches) ==
    [j \in 1..Len(schema) |-> concat_column(batches, j)]

\* arrow_array_to_seq
arrow_array_to_seq(type, array) ==
    CASE type = "Int32"   -> [t |-> "SeqI32", vals |-> array]
      [] type = "Int64"   -> [t |-> "SeqI64", vals |-> array]
      [] type = "Float32" -> [t |-> "SeqF32", vals |-> array]
      [] type = "Float64" -> [t |-> "SeqF64", vals |-> array]
      [] type = "Utf8"    -> [t |-> "SeqText", vals |-> array]
      [] type = "Boolean" -> [t |-> "SeqBOOL", vals |-> array]
      [] type \in { "Timestamp(Microsecond)", "Timestamp(Nanosecond)",
                    "Timestamp(Millisecond)", "Timestamp(Second)" }
                          -> [t |-> "SeqI64", vals |-> array]
      [] OTHER            -> [t |-> "Nil", vals |-> << >>]

\* Seq::len
Seq_len(seq) == IF seq.t = "Nil" THEN 0 ELSE Len(seq.vals)

\* DataFrame::new(names, cols)
DataFrame_new(names, cols) == [names |-> names, cols |-> cols]

\* Engine::async_query after the batches are collected: no batch is no
\* dataframe, otherwise the batches are concatenated and converted
materialize(collected) ==
    IF ~collected.ok THEN collected
    ELSE IF collected.val.batches = << >> THEN Ok(None)
    ELSE LET schema == collected.val.schema
             batch == concat_batches(schema, collected.val.batches)
             names == [j \in 1..Len(schema) |-> schema[j].name]
             columns == [j \in 1..Len(schema) |->
                            arrow_array_to_seq(schema[j].type, batch[j])]
         IN  Ok(Some(DataFrame_new(names, columns)))

(* ------------- Ele to native conversions (types/convert.rs) ------------ *)

\* An i64 is written x = h * 2^32 + n with i32::MIN <= n <= i32::MAX: n is
\* the value of its low 32 bits read as an i32, and the order of i64 is
\* the order of the pairs (h, n).  Ele::I64 carries the pair in its fields
\* h and n; for an Ele::I32, h is 0.
i32_MAX == 2147483647

i32_MIN == -i32_MAX - 1

\* x as i64, of an i32
as_i64(x) == [h |-> 0, n |-> x]

\* a <= b, of two i64
le_i64(a, b) == a.h < b.h \/ (a.h = b.h /\ a.n <= b.n)

\* x as i32, of an i64: its low 32 bits
as_i32(x) == x.n

\* what a conversion returns: a boolean, an i32 (h is 0) or an i64
Converted(b, h, n) == Ok([b |-> b, h |-> h, n |-> n])

WrongElementType == Err("WrongElementType", [b |-> FALSE, h |-> 0, n |-> 0])

\* variant: the I64 arm casts without looking at the range
i32_from_ele_wrapping(ele) ==
    CASE ele.t = "I32" -> Converted(FALSE, 0, ele.n)
      [] ele.t = "I64" -> Converted(FALSE, 0, as_i32([h |-> ele.h,
                                                      n |-> ele.n]))
      [] OTHER         -> WrongElementType

\* impl FromEle for i32
i32_from_ele(ele) ==
    CASE ele.t = "I32" -> Converted(FALSE, 0, ele.n)
      [] ele.t = "I64" ->
             LET x == [h |-> ele.h, n |-> ele.n]
             IN  IF le_i64(as_i64(i32_MIN), x) /\ le_i64(x, as_i64(i32_MAX))
                 THEN Converted(FALSE, 0, as_i32(x))
                 ELSE WrongElementType
      [] OTHER         -> WrongElementType

\* impl FromEle for i64
i64_from_ele(ele) ==
    CASE ele.t = "I32" -> Converted(FALSE, as_i64(ele.n).h, as_i64(ele.n).n)
      [] ele.t = "I64" -> Converted(FALSE, ele.h, ele.n)
      [] OTHER         -> WrongElementType

\* impl FromEle for bool
bool_from_ele(ele) ==
    CASE ele.t = "BOOL" -> Converted(ele.b, 0, 0)
      [] OTHER          -> WrongElementType

\* the low words and the high words of the integers converted
LowWords == { i32_MIN, i32_MIN + 1, -1, 0, 1, 42, i32_MAX - 1, i32_MAX }

HighWords == { -1, 0, 1 }

\* the elements converted
ConvEles ==
    { I32(n) : n \in LowWords }
    \cup { I64_wide(h, n) : h \in HighWords, n \in LowWords }
    \cup { BOOL(TRUE), BOOL(FALSE), Nil, Text(<<"test">>) }

ConvI32 ==
    \E ele \in ConvEles :
        /\ conv_last' = [op |-> "i32::from_ele", ele |-> ele,
                         res |-> i32_from_ele(ele)]
        /\ UNCHANGED <<registry_vars, lock_vars, store_vars, span_vars,
                       engine_vars,
                       aux_vars>>

ConvI64 ==
    \E ele \in ConvEles :
        /\ conv_last' = [op |-> "i64::from_ele", ele |-> ele,
                         res |-> i64_from_ele(ele)]
        /\ UNCHANGED <<registry_vars, lock_vars, store_vars, span_vars,
                       engine_vars,
                       aux_vars>>

ConvBool ==
    \E ele \in ConvEles :
        /\ conv_last' = [op |-> "bool::from_ele", ele |-> ele,
                         res |-> bool_from_ele(ele)]
        /\ UNCHANGED <<registry_vars, lock_vars, store_vars, span_vars,
                       engine_vars,
                       aux_vars>>

NextConvert ==
    \/ ConvI32
    \/ ConvI64
    \/ ConvBool

SpecConvert == Init /\ [][NextConvert]_vars

(* ------------- the write-once options of the Python extension ---------- *)

\* the values handed to the setters: Maybe::Nothing, which the empty string
\* parses into, and two handlers
Handlers ==
    { Maybe_from_str(s) : s \in { <<>>, <<"new_value">>, <<"test">> } }

\* the Python extension of the registry, under the name the builder gives
\* it
python == <<"python">>

\* self.set_crash_handler(crash_handler) on the registered extension
PySetCrashHandler ==
    \E handler \in Handlers, enable_ok \in BOOLEAN :
        /\ python \in DOMAIN EXTENSIONS
        /\ LET r == set_crash_handler(EXTENSIONS[python], handler, enable_ok)
           IN  /\ EXTENSIONS' = [EXTENSIONS EXCEPT ![python] = r.ext]
               /\ last' = Op("set_crash_handler", <<"crash_handler">>,
                             Maybe_to_string(handler), r.res, << >>)
        /\ UNCHANGED <<CONFIG_STORE, engine_eem, reg_order,
                       lock_vars, store_vars, span_vars,
                       engine_vars, conv_vars,
                       aux_vars>>

\* self.set_monitoring(monitoring) on the registered extension
PySetMonitoring ==
    \E handler \in Handlers, enable_ok \in BOOLEAN :
        /\ python \in DOMAIN EXTENSIONS
        /\ LET r == set_monitoring(EXTENSIONS[python], handler, enable_ok)
           IN  /\ EXTENSIONS' = [EXTENSIONS EXCEPT ![python] = r.ext]
               /\ last' = Op("set_monitoring", <<"monitoring">>,
                             Maybe_to_string(handler), r.res, << >>)
        /\ UNCHANGED <<CONFIG_STORE, engine_eem, reg_order,
                       lock_vars, store_vars, span_vars,
                       engine_vars, conv_vars,
                       aux_vars>>

\* the setters of the Python extension, on the extensions of the builder
NextPython ==
    \/ Register
    \/ PySetCrashHandler
    \/ PySetMonitoring

SpecPython == Init /\ [][NextPython]_vars

(* ------------- the async and the synchronous config API ---------------- *)

\* config::get / config::set act on the static CONFIG_STORE of config.rs,
\* ConfigStore::get / ConfigStore::set (the API of the Python bindings) on
\* the static CONFIG_STORE of config/store.rs.

\* the keys and the values both APIs are called with
SharedKeys == { <<"torch", ".", "mode">>, <<"server", ".", "port">> }

SharedValues == { <<"on">>, <<"random">> }

\* config::set(key, value)
AsyncSet ==
    \E key \in SharedKeys, value \in SharedValues :
        /\ Cardinality(DOMAIN set(CONFIG_STORE, key, value)) <= MaxStore
        /\ CONFIG_STORE' = set(CONFIG_STORE, key, value)
        /\ last' = Op("set", key, value, Ok(None), << >>)
        /\ UNCHANGED <<EXTENSIONS, engine_eem, reg_order,
                       lock_vars, store_vars, span_vars,
                       engine_vars, conv_vars,
                       aux_vars>>

\* config::get(key)
AsyncGet ==
    \E key \in SharedKeys :
        /\ last' = Op("get", key, << >>, Ok(get(CONFIG_STORE, key)), << >>)
        /\ UNCHANGED <<EXTENSIONS, CONFIG_STORE, engine_eem, reg_order,
                       lock_vars, store_vars, span_vars,
                       engine_vars, conv_vars,
                       aux_vars>>

\* ConfigStore::set(key, value), as config.set of the Python module calls
\* it
SyncSet ==
    \E key \in SharedKeys, value \in SharedValues :
        /\ Cardinality((DOMAIN ConfigStore) \cup {key}) <= MaxStore
        /\ ConfigStore' = ConfigStore_set(ConfigStore, key,
                                          NativeEle(Text(value)))
        /\ store_written' =
               [k \in (DOMAIN store_written) \cup {key} |->
                   IF k = key THEN NativeEle(Text(value))
                   ELSE store_written[k]]
        /\ store_last' = StoreOp("set", key, None, << >>, 0)
        /\ UNCHANGED <<registry_vars, lock_vars, store_threads, store_lock,
                       store_hist, span_vars,
                       engine_vars, conv_vars,
                       aux_vars>>

\* ConfigStore::get(key), as config.get of the Python module calls it
SyncGet ==
    \E key \in SharedKeys :
        /\ store_last' = StoreOp("get", key, ConfigStore_get(ConfigStore, key),
                                 << >>, 0)
        /\ UNCHANGED <<registry_vars, lock_vars, ConfigStore, store_written,
                       store_threads, store_lock, store_hist, span_vars,
                       engine_vars, conv_vars,
                       aux_vars>>

NextConfigApis ==
    \/ AsyncSet
    \/ AsyncGet
    \/ SyncSet
    \/ SyncGet

SpecConfigApis == Init /\ [][NextConfigApis]_vars

(* ------------- option keys that repeat the namespace prefix ------------ *)

\* keys whose local part starts with the namespace of the extension again
NestedKeys ==
    { <<"test", ".", "option">>,
      <<"test", ".", "test", ".", "option">>,
      <<"test", ".", "test", ".", "key">> }

\* EngineExtensionManager::set_option(key, value)
SetOptionNested ==
    \E t \in Threads, key \in NestedKeys, value \in Values :
        /\ first_idle(t)
        /\ enter(t, << Frame("set_option", "read_lock", key, value,
                          "ok") >>)

\* EngineExtensionManager::get_option(key)
GetOptionNested ==
    \E t \in Threads, key \in NestedKeys :
        /\ first_idle(t)
        /\ enter(t, << Frame("get_option", "read_lock", key, << >>,
                          "ok") >>)

NextLocalKey ==
    \/ Register
    \/ SetOptionNested
    \/ GetOptionNested
    \/ RegistryRead
    \/ Snapshot
    \/ ExtLock
    \/ ExtName
    \/ SetHandler
    \/ GetHandler

SpecLocalKey == Init /\ [][NextLocalKey]_vars

(* ------------- enabling and disabling Python extensions ---------------- *)

\* self.set_enabled(enabled) on the registered extension
PySetEnabled ==
    \E code \in Handlers, exec_ok \in BOOLEAN :
        /\ python \in DOMAIN EXTENSIONS
        /\ LET r == set_enabled(EXTENSIONS[python], code, exec_ok)
           IN  /\ EXTENSIONS' = [EXTENSIONS EXCEPT ![python] = r.ext]
               /\ last' = Op("set_enabled", <<"enabled">>,
                             Maybe_to_string(code), r.res, << >>)
        /\ UNCHANGED <<CONFIG_STORE, engine_eem, reg_order,
                       lock_vars, store_vars, span_vars,
                       engine_vars, conv_vars,
                       aux_vars>>

\* self.set_disabled(disabled) on the registered extension
PySetDisabled ==
    \E code \in Handlers, deinit_ok \in BOOLEAN :
        /\ python \in DOMAIN EXTENSIONS
        /\ LET r == set_disabled(EXTENSIONS[python], code, deinit_ok)
           IN  /\ EXTENSIONS' = [EXTENSIONS EXCEPT ![python] = r.ext]
               /\ last' = Op("set_disabled", <<"disabled">>,
                             Maybe_to_string(code), r.res, << >>)
        /\ UNCHANGED <<CONFIG_STORE, engine_eem, reg_order,
                       lock_vars, store_vars, span_vars,
                       engine_vars, conv_vars,
                       aux_vars>>

\* the setters of the Python extension, one call after the other
NextPythonSetters ==
    \/ Register
    \/ PySetCrashHandler
    \/ PySetMonitoring
    \/ PySetEnabled
    \/ PySetDisabled

SpecPythonSetters == Init /\ [][NextPythonSetters]_vars

(* ------------- concurrent writers of one extension option -------------- *)

\* the calls of the writers: set_option_with_store_update and config::write
\* of the option "option" of the extension "test", with either value
LockstepCalls ==
    { update_stack(<<"test", ".", "option">>, v) : v \in Values }
    \cup { << write_frame(<<"probing", ".", "test", ".", "option">>, v) >> : v \in Values }

\* a thread calls set_option_with_store_update or config::write; calls
\* records the functions called so far
LockstepBegin ==
    \E t \in Threads, stack \in LockstepCalls :
        /\ first_idle(t)
        /\ calls.n < MaxLockstepCalls
        /\ threads' = [threads EXCEPT ![t] = stack]
        /\ calls' = [calls EXCEPT !.n = @ + 1,
                                  !.kinds = @ \cup { stack[1].op }]
        /\ last' = NoOp
        /\ UNCHANGED <<EXTENSIONS, CONFIG_STORE, engine_eem, reg_order,
                       locks, arcs, store_vars, span_vars,
                       engine_vars, conv_vars,
                       aux_vars>>

NextLockstep ==
    \/ LockstepBegin
    \/ RegistryRead
    \/ Snapshot
    \/ ExtLock
    \/ ExtName
    \/ SetHandler
    \/ UpdateReturn
    \/ WriteEngineLock
    \/ WriteReturn
    \/ WriteMirror

\* the engine is initialized from a builder with the extension "test"
InitLockstep ==
    /\ InitBuilt(<< TestExtension(<<"test">>) >>)
    /\ CONFIG_STORE = EmptyMap
    /\ InitThreads
    /\ InitStore
    /\ InitSpans
    /\ InitConv
    /\ InitIdle
    /\ InitNoTree

SpecLockstep == InitLockstep /\ [][NextLockstep]_vars

(* ------------- query responses of the server (query_dto.rs) ------------ *)

\* protocol::query::Data, the payload of an engine reply
NoFrame == [names |-> << >>, cols |-> << >>]

Data_Nil == [t |-> "Nil", code |-> "", message |-> "", df |-> NoFrame]

Data_Error(code, message) ==
    [t |-> "Error", code |-> code, message |-> message, df |-> NoFrame]

Data_DataFrame(df) ==
    [t |-> "DataFrame", code |-> "", message |-> "", df |-> df]

Data_TimeSeries(ts) ==
    [t |-> "TimeSeries", code |-> "", message |-> "", df |-> ts]

\* impl From<Data> for QueryDataDto: the DTO variant of each variant, the
\* columns of a dataframe copied variant by variant
QueryDataDto_from(data) ==
    CASE data.t = "Nil"   -> Data_Nil
      [] data.t = "Error" -> Data_Error(data.code, data.message)
      [] data.t = "DataFrame" ->
             Data_DataFrame(
                 [names |-> data.df.names,
                  cols |-> [j \in DOMAIN data.df.cols |->
                               [t |-> data.df.cols[j].t,
                                vals |-> data.df.cols[j].vals]]])
      [] OTHER -> Data_TimeSeries(data.df)

\* QueryResponseDto::success(payload)
QueryResponseDto_success(payload) ==
    [payload |-> payload, success |-> TRUE, message |-> None]

\* QueryResponseDto::error(code, message)
QueryResponseDto_error(code, message) ==
    [payload |-> Data_Error(code, message), success |-> FALSE,
     message |-> Some(message)]

\* QueryResponseDto::nil()
QueryResponseDto_nil ==
    [payload |-> Data_Nil, success |-> TRUE, message |-> None]

\* a response of the handler: its status, whether its body is a
\* QueryResponseDto, and the DTO
Response(status_code, dto, response) ==
    [status |-> status_code, dto |-> dto, success |-> response.success,
     message |-> response.message, payload |-> response.payload]

\* convert_engine_response_to_dto; parsed is the outcome of
\* serde_json::from_str::<Message<Data>>(&response_json)
convert_engine_response_to_dto(parsed) ==
    IF parsed.ok
    THEN Response(200, TRUE,
                  QueryResponseDto_success(QueryDataDto_from(parsed.val)))
    ELSE Response(500, FALSE, QueryResponseDto_nil)

\* convert_engine_error_to_dto
convert_engine_error_to_dto(api_error) ==
    Response(500, TRUE,
             QueryResponseDto_error("INTERNAL_ERROR",
                                    "Engine error: " \o api_error))

\* the columns, the dataframes and the payloads of the engine replies
DtoColumns ==
    { [t |-> ty, vals |-> v] :
        ty \in { "SeqI32", "SeqI64" },
        v \in { << >>, <<1>>, <<2>>, <<1, 2>>, <<2, 1>> } }
    \cup { [t |-> "Nil", vals |-> << >>] }

DtoFrames ==
    { DataFrame_new(<<"id">>, <<c>>) : c \in DtoColumns }
    \cup { DataFrame_new(<<"id", "n">>, <<c, e>>) :
             c \in DtoColumns, e \in DtoColumns }

DtoData ==
    { Data_Nil, Data_TimeSeries(NoFrame) }
    \cup { Data_Error(code, message) :
             code \in { "Internal", "NotFound" },
             message \in { "", "table not found" } }
    \cup { Data_DataFrame(df) : df \in DtoFrames }

\* process_engine_query: the engine answered, and its reply is converted
DtoConvertResponse ==
    \E parsed \in { Ok(data) : data \in DtoData }
                  \cup { Err("serde_json::Error", Data_Nil) } :
        LET r == convert_engine_response_to_dto(parsed)
        IN  /\ dto_last' = [op |-> "convert_engine_response_to_dto",
                            data |-> parsed.val, status |-> r.status,
                            dto |-> r.dto, success |-> r.success,
                            message |-> r.message, payload |-> r.payload]
            /\ UNCHANGED <<registry_vars, lock_vars, store_vars, span_vars,
                           engine_vars, conv_vars, SPAN_STACK, span_entered,
                           tree_last, catalog, providers, engine_tasks>>

\* process_engine_query: the engine failed, and its error is converted
DtoConvertError ==
    \E api_error \in { "query failed", "" } :
        LET r == convert_engine_error_to_dto(api_error)
        IN  /\ dto_last' = [op |-> "convert_engine_error_to_dto",
                            data |-> Data_Nil, status |-> r.status,
                            dto |-> r.dto, success |-> r.success,
                            message |-> r.message, payload |-> r.payload]
            /\ UNCHANGED <<registry_vars, lock_vars, store_vars, span_vars,
                           engine_vars, conv_vars, SPAN_STACK, span_entered,
                           tree_last, catalog, providers, engine_tasks>>

NextDto ==
    \/ DtoConvertResponse
    \/ DtoConvertError

SpecDto == Init /\ [][NextDto]_vars

(* ------------ the Python binding of spans (features/tracing.rs) -------- *)

\* Vec::last of a thread's stack, as an Option
stack_last(stack) == IF stack = << >> THEN None ELSE Some(stack[Len(stack)])

\* Vec::pop: the stack without its top; an empty stack stays empty
stack_pop(stack) ==
    IF stack = << >> THEN stack ELSE SubSeq(stack, 1, Len(stack) - 1)

\* the sequence without the latest occurrence of an entry
without_last(entries, i) ==
    LET at == { k \in 1..Len(entries) : entries[k] = i }
    IN  IF at = {} THEN entries
        ELSE LET k == CHOOSE x \in at : \A y \in at : y <= x
             IN  SubSeq(entries, 1, k - 1)
                 \o SubSeq(entries, k + 1, Len(entries))

\* current_span(): the top of the calling thread's stack
current_span(t) == stack_last(SPAN_STACK[t])

RECURSIVE set_initial_attrs(_, _)
\* Span::_set_initial_attrs: every item of the dict is pushed onto
\* inner.attrs
set_initial_attrs(self, attrs_dict) ==
    IF attrs_dict = << >> THEN Outcome(self, "Ok")
    ELSE set_initial_attrs(
             [self EXCEPT !.attrs =
                  Append(@, attr(attrs_dict[1][1], attrs_dict[1][2]))],
             Tail(attrs_dict))

\* the Python add_event: the error of the core method becomes a
\* PyRuntimeError
py_add_event(self, name, attributes, now) ==
    LET r == add_event(self, name, attributes, now)
    IN  Outcome(r.span, IF r.res = "Ok" THEN "Ok" ELSE "PyRuntimeError")

\* the dicts handed to _set_initial_attrs
AttrDicts == { << <<"k", AttrValue>> >> }

\* _span_raw(name): a child of the span on top of the thread's stack, a
\* root span when the stack is empty
PySpanRaw ==
    \E t \in Threads, now \in SpanClock :
        /\ span_last.n < MaxSpanOps
        /\ Len(spans) < MaxLifeSpans
        /\ LET parent == current_span(t)
               span == IF parent # None
                       THEN new_child(spans[unwrap(parent)], "step",
                                      NEXT_SPAN_ID, t, now, Len(spans))
                       ELSE new_root("work", NEXT_TRACE_ID, NEXT_SPAN_ID, t,
                                     now, Len(spans))
           IN  /\ spans' = Append(spans, span)
               /\ NEXT_TRACE_ID' = IF parent # None THEN NEXT_TRACE_ID
                                   ELSE fetch_add(NEXT_TRACE_ID, 1)
        /\ NEXT_SPAN_ID' = fetch_add(NEXT_SPAN_ID, 1)
        /\ span_last' = SpanOp("_span_raw", Len(spans) + 1, "")
        /\ UNCHANGED <<registry_vars, lock_vars, store_vars, engine_vars,
                       conv_vars, span_threads, trace_event, aux_vars>>

\* Span(name): the constructor of the Python class makes a root span,
\* whatever the stack of the thread holds
PyNew ==
    \E t \in Threads, now \in SpanClock :
        /\ span_last.n < MaxSpanOps
        /\ Len(spans) < MaxLifeSpans
        /\ spans' = Append(spans,
                           new_root("work", NEXT_TRACE_ID, NEXT_SPAN_ID, t,
                                    now, Len(spans)))
        /\ NEXT_TRACE_ID' = fetch_add(NEXT_TRACE_ID, 1)
        /\ NEXT_SPAN_ID' = fetch_add(NEXT_SPAN_ID, 1)
        /\ span_last' = SpanOp("Span", Len(spans) + 1, "")
        /\ UNCHANGED <<registry_vars, lock_vars, store_vars, engine_vars,
                       conv_vars, span_threads, trace_event, aux_vars>>

\* Span.new_child(parent, name): a child of the span it is handed,
\* whatever the stack of the thread holds
PyNewChild ==
    \E t \in Threads, p \in 1..Len(spans), now \in SpanClock :
        /\ span_last.n < MaxSpanOps
        /\ Len(spans) < MaxLifeSpans
        /\ spans' = Append(spans,
                           new_child(spans[p], "step", NEXT_SPAN_ID, t, now,
                                     Len(spans)))
        /\ NEXT_SPAN_ID' = fetch_add(NEXT_SPAN_ID, 1)
        /\ span_last' = SpanOp("Span.new_child", Len(spans) + 1, "")
        /\ UNCHANGED <<registry_vars, lock_vars, store_vars, engine_vars,
                       conv_vars, NEXT_TRACE_ID, span_threads, trace_event,
                       aux_vars>>

\* span.__enter__() on thread t
PyEnter ==
    \E t \in Threads, i \in 1..Len(spans) :
        /\ span_last.n < MaxSpanOps
        /\ SPAN_STACK' = [SPAN_STACK EXCEPT ![t] = Append(@, i)]
        /\ span_entered' = [span_entered EXCEPT ![t] = Append(@, i)]
        /\ span_last' = SpanOp("__enter__", i, "")
        /\ UNCHANGED <<registry_vars, lock_vars, store_vars, engine_vars,
                       conv_vars, NEXT_TRACE_ID, NEXT_SPAN_ID, spans,
                       span_threads, trace_event, dto_last, tree_last,
                       catalog, providers, engine_tasks>>

\* span.__exit__(..) on thread t: the span is ended and the stack of the
\* thread is popped, whether the thread entered the span or not
PyExit ==
    \E t \in Threads, i \in 1..Len(spans), now \in SpanClock :
        /\ span_last.n < MaxSpanOps
        /\ LET r == Span_end(spans[i], now)
           IN  spans' = [spans EXCEPT ![i] = r.span]
        /\ SPAN_STACK' = [SPAN_STACK EXCEPT ![t] = stack_pop(@)]
        /\ span_entered' = [span_entered EXCEPT ![t] = without_last(@, i)]
        /\ span_last' = SpanOp("__exit__", i, "")
        /\ UNCHANGED <<registry_vars, lock_vars, store_vars, engine_vars,
                       conv_vars, NEXT_TRACE_ID, NEXT_SPAN_ID,
                       span_threads, trace_event, dto_last, tree_last,
                       catalog, providers, engine_tasks>>

\* span._set_initial_attrs(dict)
PySetInitialAttrs ==
    \E i \in 1..Len(spans), attrs_dict \in AttrDicts :
        /\ span_last.n < MaxSpanOps
        /\ LET r == set_initial_attrs(spans[i], attrs_dict)
           IN  /\ spans' = [spans EXCEPT ![i] = r.span]
               /\ span_last' = SpanOp("_set_initial_attrs", i, r.res)
        /\ UNCHANGED <<registry_vars, lock_vars, store_vars, engine_vars,
                       conv_vars, NEXT_TRACE_ID, NEXT_SPAN_ID, span_threads,
                       trace_event, aux_vars>>

\* span.add_event("mid")
PyAddEvent ==
    \E i \in 1..Len(spans), now \in SpanClock :
        /\ span_last.n < MaxSpanOps
        /\ LET r == py_add_event(spans[i], "mid", None, now)
           IN  /\ spans' = [spans EXCEPT ![i] = r.span]
               /\ span_last' = SpanOp("add_event", i, r.res)
        /\ UNCHANGED <<registry_vars, lock_vars, store_vars, engine_vars,
                       conv_vars, NEXT_TRACE_ID, NEXT_SPAN_ID, span_threads,
                       trace_event,
                       aux_vars>>

\* span.end()
PyEnd ==
    \E i \in 1..Len(spans), now \in SpanClock :
        /\ span_last.n < MaxSpanOps
        /\ LET r == Span_end(spans[i], now)
           IN  /\ spans' = [spans EXCEPT ![i] = r.span]
               /\ span_last' = SpanOp("end", i, r.res)
        /\ UNCHANGED <<registry_vars, lock_vars, store_vars, engine_vars,
                       conv_vars, NEXT_TRACE_ID, NEXT_SPAN_ID, span_threads,
                       trace_event,
                       aux_vars>>

\* span.end_error(error_message)
PyEndError ==
    \E i \in 1..Len(spans), now \in SpanClock, msg \in ErrorMessages :
        /\ span_last.n < MaxSpanOps
        /\ LET r == end_error(spans[i], msg, now)
           IN  /\ spans' = [spans EXCEPT ![i] = r.span]
               /\ span_last' =
                      SpanOp(IF msg = None THEN "end_error(None)"
                                           ELSE "end_error(Some)", i, r.res)
        /\ UNCHANGED <<registry_vars, lock_vars, store_vars, engine_vars,
                       conv_vars, NEXT_TRACE_ID, NEXT_SPAN_ID, span_threads,
                       trace_event,
                       aux_vars>>

\* the context stack: spans are made, entered and exited
NextPyStack ==
    \/ PySpanRaw
    \/ PyNew
    \/ PyNewChild
    \/ PyEnter
    \/ PyExit

SpecPyStack == Init /\ [][NextPyStack]_vars

\* every entry point that touches a span's attributes, events or end time
NextPySpans ==
    \/ PySpanRaw
    \/ PyNew
    \/ PyNewChild
    \/ LifeAddAttr
    \/ PySetInitialAttrs
    \/ PyAddEvent
    \/ PyEnd
    \/ PyEndError

SpecPySpans == Init /\ [][NextPySpans]_vars

(* --------------- the span tree of the dashboard (api/traces.rs) -------- *)

\* a row of the trace_event table as get_trace_events returns it
TraceRow(record_type, span_id, parent_id, timestamp) ==
    [record_type |-> record_type, span_id |-> span_id,
     parent_id |-> parent_id, timestamp |-> timestamp]

\* HashMap: a function from the keys it holds; insert, remove
map_insert(map, key, value) ==
    [k \in DOMAIN map \cup {key} |-> IF k = key THEN value ELSE map[k]]

map_remove(map, key) == [k \in DOMAIN map \ {key} |-> map[k]]

\* the keys of a map in the order its iteration visits them; order is the
\* order in which the hash table holds the span ids
map_iter(map, order) ==
    LET held(id) == id \in DOMAIN map
    IN  SelectSeq(order, held)

RECURSIVE build_span_map(_, _, _)
\* the first loop of get_span_tree: span_start rows are turned into
\* SpanInfo entries (the roots are remembered in row order), span_end rows
\* set the end timestamp, event rows are pushed onto the span's events
build_span_map(events, span_map, root_spans) ==
    IF events = << >>
    THEN [span_map |-> span_map, root_spans |-> root_spans]
    ELSE LET event == Head(events)
         IN  CASE event.record_type = "span_start" ->
                      build_span_map(
                          Tail(events),
                          map_insert(span_map, event.span_id,
                                     [span_id |-> event.span_id,
                                      parent_id |-> event.parent_id,
                                      start_timestamp |-> event.timestamp,
                                      end_timestamp |-> None,
                                      children |-> << >>,
                                      events |-> << >>]),
                          IF event.parent_id = None
                             \/ event.parent_id = Some(-1)
                          THEN Append(root_spans, event.span_id)
                          ELSE root_spans)
               [] event.record_type = "span_end" ->
                      build_span_map(
                          Tail(events),
                          IF event.span_id \in DOMAIN span_map
                          THEN [span_map EXCEPT ![event.span_id].end_timestamp
                                                    = Some(event.timestamp)]
                          ELSE span_map,
                          root_spans)
               [] event.record_type = "event" ->
                      build_span_map(
                          Tail(events),
                          IF event.span_id \in DOMAIN span_map
                          THEN [span_map EXCEPT ![event.span_id].events =
                                    Append(@, [timestamp |-> event.timestamp])]
                          ELSE span_map,
                          root_spans)
               [] OTHER -> build_span_map(Tail(events), span_map, root_spans)

RECURSIVE depth_pass(_, _, _, _)
\* one pass of the depth loop over the map: a span without a depth gets its
\* parent's depth plus one when the parent has a depth
depth_pass(span_map, todo, depth_map, changed) ==
    IF todo = << >> THEN [depth_map |-> depth_map, changed |-> changed]
    ELSE LET span_id == Head(todo)
             span == span_map[span_id]
         IN  IF span_id \in DOMAIN depth_map
             THEN depth_pass(span_map, Tail(todo), depth_map, changed)
             ELSE IF span.parent_id # None
             THEN LET parent_id == unwrap(span.parent_id)
                  IN  IF parent_id # -1 /\ parent_id \in DOMAIN depth_map
                      THEN depth_pass(span_map, Tail(todo),
                                      map_insert(depth_map, span_id,
                                                 depth_map[parent_id] + 1),
                                      TRUE)
                      ELSE depth_pass(span_map, Tail(todo), depth_map,
                                      changed)
             ELSE depth_pass(span_map, Tail(todo),
                             map_insert(depth_map, span_id, 0), TRUE)

RECURSIVE depth_loop(_, _, _)
\* while changed { .. }
depth_loop(span_map, order, depth_map) ==
    LET pass == depth_pass(span_map, map_iter(span_map, order), depth_map,
                           FALSE)
    IN  IF pass.changed THEN depth_loop(span_map, order, pass.depth_map)
        ELSE pass.depth_map

\* depth_map.get(&id).copied().unwrap_or(0)
depth_or_0(depth_map, id) ==
    IF id \in DOMAIN depth_map THEN depth_map[id] ELSE 0

RECURSIVE sort_by_depth_desc(_, _, _)
\* spans_to_process.sort_by(|a, b| b.1.cmp(&a.1)): a stable sort, the
\* deepest spans first; depth counts down from the greatest depth
sort_by_depth_desc(ids, depth_map, depth) ==
    LET at(id) == depth_or_0(depth_map, id) = depth
    IN  IF depth < 0 THEN << >>
        ELSE SelectSeq(ids, at) \o sort_by_depth_desc(ids, depth_map,
                                                      depth - 1)

RECURSIVE attach_children(_, _)
\* the loop over spans_to_process: a span with a parent is taken out of the
\* map and pushed onto the children of its parent when the map still holds
\* the parent, and put back otherwise
attach_children(span_map, spans_to_process) ==
    IF spans_to_process = << >> THEN span_map
    ELSE LET span_id == Head(spans_to_process)
             parent_id ==
                 IF span_id \in DOMAIN span_map
                    /\ span_map[span_id].parent_id # None
                    /\ span_map[span_id].parent_id # Some(-1)
                 THEN span_map[span_id].parent_id
                 ELSE None
         IN  IF parent_id = None
             THEN attach_children(span_map, Tail(spans_to_process))
             ELSE LET child == span_map[span_id]
                      rest == map_remove(span_map, span_id)
                      p == unwrap(parent_id)
                  IN  IF p \in DOMAIN rest
                      THEN attach_children(
                               [rest EXCEPT ![p].children = Append(@, child)],
                               Tail(spans_to_process))
                      ELSE attach_children(map_insert(rest, span_id, child),
                                           Tail(spans_to_process))

RECURSIVE collect_roots(_, _)
\* the root spans the map still holds, in the order of root_spans
collect_roots(span_map, root_spans) ==
    IF root_spans = << >> THEN << >>
    ELSE IF Head(root_spans) \in DOMAIN span_map
         THEN <<span_map[Head(root_spans)]>>
              \o collect_roots(map_remove(span_map, Head(root_spans)),
                               Tail(root_spans))
         ELSE collect_roots(span_map, Tail(root_spans))

RECURSIVE sort_by_start(_, _, _)
\* result.sort_by_key(|s| s.start_timestamp): a stable sort; ts counts up
\* to the greatest timestamp
sort_by_start(result, ts, max) ==
    LET at(s) == s.start_timestamp = ts
    IN  IF ts > max THEN << >>
        ELSE SelectSeq(result, at) \o sort_by_start(result, ts + 1, max)

\* the greatest of a set of naturals, 0 for the empty set
Max(S) == IF S = {} THEN 0 ELSE CHOOSE x \in S : \A y \in S : y <= x

\* ApiClient::get_span_tree on the rows events, with a hash table that
\* iterates its keys in the order order
get_span_tree(events, order) ==
    LET built == build_span_map(events, << >>, << >>)
        span_map == built.span_map
        root_spans == built.root_spans
        depth_map ==
            depth_loop(span_map, order,
                       [id \in { root_spans[k] : k \in DOMAIN root_spans }
                            |-> 0])
        keys == map_iter(span_map, order)
        spans_to_process ==
            sort_by_depth_desc(keys, depth_map,
                               Max({ depth_or_0(depth_map, id) :
                                       id \in DOMAIN span_map }))
        attached == attach_children(span_map, spans_to_process)
        roots == collect_roots(attached, root_spans)
        root_set == { root_spans[k] : k \in DOMAIN root_spans }
        orphans == LET orphan(id) == id \in DOMAIN attached
                                     /\ id \notin root_set
                   IN  SelectSeq(order, orphan)
        result == roots \o [k \in DOMAIN orphans |-> attached[orphans[k]]]
    IN  sort_by_start(result, 0,
                      Max({ result[k].start_timestamp : k \in DOMAIN result }))

\* the parents a span_start row of span i may name: none, the marker -1,
\* a span whose row is never recorded (0), or an earlier span
TreeParents(i) == { None, Some(-1), Some(0) } \cup { Some(j) : j \in 1..(i - 1) }

\* the ways to give every span of 1..MaxTreeSpans a parent
TreeShapes == { f \in [1..MaxTreeSpans -> { None, Some(-1), Some(0) }
                                          \cup { Some(j) : j \in 1..MaxTreeSpans }] :
                  \A i \in 1..MaxTreeSpans : f[i] \in TreeParents(i) }

RECURSIVE SeqOfSet(_)
\* the elements of a set of integers in increasing order
SeqOfSet(S) ==
    IF S = {} THEN << >>
    ELSE LET m == CHOOSE x \in S : \A y \in S : x <= y
         IN  <<m>> \o SeqOfSet(S \ {m})

\* the orders in which a hash table may hold the keys of S
Orders(S) ==
    { o \in [1..Cardinality(S) -> S] :
        \A a, b \in 1..Cardinality(S) : a # b => o[a] # o[b] }

\* the rows of the table: the span_start rows of the present spans (a
\* span starts at the time of its id), then an event of the first span,
\* then the span_end rows of the ended spans
TreeRows(shape, present, with_event, ended) ==
    LET ids == SeqOfSet(present)
        done == SeqOfSet(ended)
    IN  [k \in DOMAIN ids |->
            TraceRow("span_start", ids[k], shape[ids[k]], ids[k])]
        \o ( IF with_event /\ ids # << >>
             THEN << TraceRow("event", ids[1], shape[ids[1]],
                              MaxTreeSpans + 1) >>
             ELSE << >> )
        \o [k \in DOMAIN done |->
               TraceRow("span_end", done[k], shape[done[k]],
                        MaxTreeSpans + 2)]

\* the requests for the span tree: the rows of the table and the order of
\* the hash table, the result still to come
TreeRequests ==
    UNION { UNION { { [events |-> TreeRows(shape, present, with_event, ended),
                       order |-> order, result |-> << >>, done |-> FALSE] :
                        with_event \in BOOLEAN, ended \in { {}, present },
                        order \in Orders(present) } :
                    present \in SUBSET (1..MaxTreeSpans) } :
            shape \in TreeShapes }

\* the dashboard has asked for the span tree; everything else is as new
InitTree ==
    /\ EXTENSIONS = EmptyMap
    /\ CONFIG_STORE = EmptyMap
    /\ engine_eem = FALSE
    /\ reg_order = << >>
    /\ last = Op("init", << >>, << >>, Ok(<< >>), << >>)
    /\ InitThreads
    /\ InitStore
    /\ InitSpans
    /\ InitEngine
    /\ InitConv
    /\ InitAux
    /\ tree_last \in TreeRequests

\* get_span_tree answers the request
TreeBuild ==
    /\ ~tree_last.done
    /\ tree_last' = [tree_last EXCEPT
                        !.result = get_span_tree(tree_last.events,
                                                 tree_last.order),
                        !.done = TRUE]
    /\ UNCHANGED <<registry_vars, lock_vars, store_vars, span_vars,
                   engine_vars, conv_vars, SPAN_STACK, span_entered,
                   dto_last, catalog, providers, engine_tasks>>

NextTree == TreeBuild

SpecTree == InitTree /\ [][NextTree]_vars

(* ------------- concurrent calls of Engine::enable (engine.rs) ---------- *)

\* GenericTablePlugin::single_column_table: a table of one Int32 column
single_column_table(name, namespace, column_name, values) ==
    [name |-> name, namespace |-> namespace, kind |-> "Table",
     schema |-> << Field(column_name, "Int32") >>,
     batches |-> << << values >> >>]

\* the plugins the tasks enable: tables of distinct names in a namespace
\* that is new, in the default schema, and a namespace plugin
ConcurrentPlugins ==
    { single_column_table(name, namespace, "id", <<1>>) :
        name \in { "table_0", "table_1" },
        namespace \in { "concurrent", "probe" } }
    \cup { NamespacePlugin }

\* what a call is known by
plugin_key(plugin) == <<plugin.namespace, plugin.name>>

\* the calls begun so far, by every task
enables_begun == UNION { engine_tasks[t].begun : t \in Threads }

\* the calls of the engine begun so far, by every task
RECURSIVE calls_of(_)
calls_of(tasks) ==
    IF tasks = {} THEN 0
    ELSE LET t == CHOOSE x \in tasks : TRUE
         IN  engine_tasks[t].calls + calls_of(tasks \ {t})

calls_begun == calls_of(Threads)

\* catalog.schema_names().contains(&namespace)
schema_names_contains(namespace) == namespace \in DOMAIN catalog

\* catalog.register_schema(name, schema): the entry of the name is set,
\* whether the catalog had one or not
register_schema(cat, name, schema) ==
    [s \in (DOMAIN cat) \cup {name} |-> IF s = name THEN schema ELSE cat[s]]

\* what the planner resolves: the tables of the provider the catalog holds
\* for each schema
context_of(cat, provs) == [s \in DOMAIN cat |-> provs[cat[s]].tables]

\* the table plugins some handle has in its plugin index: those for which
\* enable returned Ok
enabled_tables ==
    UNION { { engines[h].plugins[key] : key \in DOMAIN engines[h].plugins } :
              h \in 1..Len(engines) }
    \cap { p \in EnginePlugins : p.kind = "Table" }

\* what the steps of the engine leave alone
engine_others ==
    <<registry_vars, lock_vars, store_vars, span_vars, conv_vars, builder,
      SPAN_STACK, span_entered, dto_last, tree_last>>

\* a task that is in no call of the engine
IdleTask(task) ==
    [task EXCEPT !.pc = "idle", !.plugin = NoPlugin, !.schema = 0,
                 !.handle = 1, !.query = NoQuery,
                 !.plan = NoPlan, !.enabled = {}, !.known = {}]

\* the first step of Engine::enable: plugin.kind() chooses the branch
enable_pc(plugin) ==
    IF plugin.kind = "Namespace" THEN "register_namespace" ELSE "check"

\* a task calls engine.enable(plugin) on the engine of the test
EnableBegin ==
    \E t \in Threads, plugin \in ConcurrentPlugins :
        /\ engine_tasks[t].pc = "idle"
        /\ Cardinality(enables_begun) < MaxEnableCalls
        /\ plugin_key(plugin) \notin enables_begun
        /\ engine_tasks' =
               [engine_tasks EXCEPT
                   ![t].pc = enable_pc(plugin),
                   ![t].plugin = plugin,
                   ![t].handle = 1,
                   ![t].begun = @ \cup { plugin_key(plugin) }]
        /\ UNCHANGED <<engine_others, context, engines, engine_last,
                       catalog, providers>>

\* a task calls engine.enable(plugin) through one of the handles
EngineEnable ==
    \E t \in Threads, h \in 1..Len(engines), plugin \in EnginePlugins :
        /\ engine_tasks[t].pc = "idle"
        /\ calls_begun < MaxEngineCalls
        /\ engine_tasks' =
               [engine_tasks EXCEPT
                   ![t].pc = enable_pc(plugin),
                   ![t].plugin = plugin,
                   ![t].handle = h,
                   ![t].calls = @ + 1,
                   ![t].begun = @ \cup { plugin_key(plugin) }]
        /\ UNCHANGED <<engine_others, context, engines, engine_last,
                       catalog, providers>>

\* plugin.register_namespace(catalog, &state)?
EnableRegisterNamespace ==
    \E t \in Threads :
        /\ engine_tasks[t].pc = "register_namespace"
        /\ LET plugin == engine_tasks[t].plugin
               registered == register_namespace(context, plugin)
               added == plugin.namespace \in DOMAIN registered.val
                        /\ ( \/ plugin.namespace \notin DOMAIN context
                             \/ registered.val[plugin.namespace]
                                    # context[plugin.namespace] )
           IN  /\ providers' =
                      IF added
                      THEN Append(providers,
                                  [namespace |-> plugin.namespace,
                                   tables |->
                                       registered.val[plugin.namespace]])
                      ELSE providers
               /\ catalog' =
                      IF added
                      THEN register_schema(catalog, plugin.namespace,
                                           Len(providers) + 1)
                      ELSE catalog
        /\ context' = context_of(catalog', providers')
        /\ engine_tasks' = [engine_tasks EXCEPT ![t].pc = "index"]
        /\ UNCHANGED <<engine_others, engines, engine_last>>

\* if catalog.schema_names().contains(&namespace)
EnableCheck ==
    \E t \in Threads :
        /\ engine_tasks[t].pc = "check"
        /\ engine_tasks' =
               [engine_tasks EXCEPT
                   ![t].pc =
                       IF schema_names_contains(
                              engine_tasks[t].plugin.namespace)
                       THEN "schema" ELSE "register_schema"]
        /\ UNCHANGED <<engine_others, context, engines, engine_last,
                       catalog, providers>>

\* catalog.register_schema(namespace, Arc::new(MemorySchemaProvider::new()))
EnableRegisterSchema ==
    \E t \in Threads :
        /\ engine_tasks[t].pc = "register_schema"
        /\ providers' =
               Append(providers,
                      [namespace |-> engine_tasks[t].plugin.namespace,
                       tables |-> EmptyMap])
        /\ catalog' = register_schema(catalog,
                                      engine_tasks[t].plugin.namespace,
                                      Len(providers) + 1)
        /\ context' = context_of(catalog', providers')
        /\ engine_tasks' = [engine_tasks EXCEPT ![t].pc = "schema"]
        /\ UNCHANGED <<engine_others, engines, engine_last>>

\* catalog.schema(namespace): the provider the catalog holds now
EnableSchema ==
    \E t \in Threads :
        /\ engine_tasks[t].pc = "schema"
        /\ engine_tasks' =
               [engine_tasks EXCEPT
                   ![t].pc = "register_table",
                   ![t].schema = catalog[engine_tasks[t].plugin.namespace]]
        /\ UNCHANGED <<engine_others, context, engines, engine_last,
                       catalog, providers>>

\* plugin.register_table(schema, &state)?: the table is added to the
\* provider the task holds, or the call returns the error
EnableRegisterTable ==
    \E t \in Threads :
        /\ engine_tasks[t].pc = "register_table"
        /\ LET schema == engine_tasks[t].schema
               plugin == engine_tasks[t].plugin
               registered == register_table(providers[schema].tables,
                                            plugin)
           IN  IF registered.ok
               THEN /\ providers' = [providers EXCEPT
                                        ![schema].tables = registered.val]
                    /\ engine_tasks' =
                           [engine_tasks EXCEPT ![t].pc = "index"]
                    /\ engine_last' = engine_last
               ELSE /\ providers' = providers
                    /\ engine_tasks' =
                           [engine_tasks EXCEPT
                               ![t] = [IdleTask(@) EXCEPT !.failed = TRUE]]
                    /\ engine_last' =
                           [op |-> "enable",
                            handle |-> engine_tasks[t].handle,
                            arg |-> plugin, res |-> registered]
        /\ context' = context_of(catalog, providers')
        /\ UNCHANGED <<engine_others, engines, catalog>>

\* self.plugins.write().await; maps.insert(..); Ok(())
EnableIndex ==
    \E t \in Threads :
        /\ engine_tasks[t].pc = "index"
        /\ LET plugin == engine_tasks[t].plugin
               h == engine_tasks[t].handle
               key == IF plugin.kind = "Namespace"
                      THEN "probe." \o plugin.namespace
                      ELSE "probe." \o plugin.namespace \o "."
                               \o plugin.name
           IN  /\ engines' = [engines EXCEPT
                                 ![h].plugins = index_insert(@, key, plugin)]
               /\ engine_last' = [op |-> "enable", handle |-> h,
                                  arg |-> plugin, res |-> Ok(<< >>)]
               /\ engine_tasks' =
                      [engine_tasks EXCEPT
                          ![t] = [IdleTask(@) EXCEPT
                                     !.ok = @ \cup { plugin_key(plugin) }]]
        /\ UNCHANGED <<engine_others, context, catalog, providers>>

\* impl Clone for Engine: the context is shared, the plugin index is
\* copied
EngineClone ==
    \E h \in 1..Len(engines) :
        /\ Len(engines) < MaxHandles
        /\ engines' = Append(engines, [plugins |-> engines[h].plugins])
        /\ engine_last' = [op |-> "clone", handle |-> h, arg |-> << >>,
                           res |-> Ok(<< >>)]
        /\ UNCHANGED <<engine_others, context, catalog, providers,
                       engine_tasks>>

\* a task calls engine.async_query(query) through one of the handles:
\* self.sql(query).await? plans the query on the catalog as it is; the
\* task remembers the tables enabled and the calls of enable begun by then
EngineQuery ==
    \E t \in Threads, h \in 1..Len(engines), query \in EngineQueries :
        /\ engine_tasks[t].pc = "idle"
        /\ calls_begun < MaxEngineCalls
        /\ LET planned == sql(context, query)
           IN  IF planned.ok
               THEN /\ engine_tasks' =
                           [engine_tasks EXCEPT
                               ![t].pc = "collect",
                               ![t].calls = @ + 1,
                               ![t].handle = h,
                               ![t].query = query,
                               ![t].plan = planned.val,
                               ![t].enabled = enabled_tables,
                               ![t].known = enables_begun]
                    /\ engine_last' = engine_last
               ELSE /\ engine_tasks' =
                           [engine_tasks EXCEPT ![t].calls = @ + 1]
                    /\ engine_last' =
                           [op |-> "query", handle |-> h, arg |-> query,
                            res |-> planned, enabled |-> enabled_tables,
                            known |-> enables_begun,
                            produced |-> << >>]
        /\ UNCHANGED <<engine_others, context, engines, catalog,
                       providers>>

\* .collect().await?: the plan is executed on the context as it is now,
\* and async_query makes the dataframe of the batches
QueryCollect ==
    \E t \in Threads :
        /\ engine_tasks[t].pc = "collect"
        /\ LET collected == DataFrame_collect(context,
                                              engine_tasks[t].plan)
           IN  engine_last' =
                   [op |-> "query", handle |-> engine_tasks[t].handle,
                    arg |-> engine_tasks[t].query,
                    res |-> materialize(collected),
                    enabled |-> engine_tasks[t].enabled,
                    known |-> engine_tasks[t].known,
                    produced |-> collected.val.batches]
        /\ engine_tasks' = [engine_tasks EXCEPT ![t] = IdleTask(@)]
        /\ UNCHANGED <<engine_others, context, engines, catalog,
                       providers>>

NextEnable ==
    \/ EnableBegin
    \/ EnableRegisterNamespace
    \/ EnableCheck
    \/ EnableRegisterSchema
    \/ EnableSchema
    \/ EnableRegisterTable
    \/ EnableIndex

SpecEnable == Init /\ [][NextEnable]_vars

NextEngine ==
    \/ EngineEnable
    \/ EnableRegisterNamespace
    \/ EnableCheck
    \/ EnableRegisterSchema
    \/ EnableSchema
    \/ EnableRegisterTable
    \/ EnableIndex
    \/ EngineClone
    \/ EngineQuery
    \/ QueryCollect

SpecEngine == Init /\ [][NextEngine]_vars

(* ------------------------------ properties ----------------------------- *)

\* keys and values of the scenarios
TestOptionKey == <<"test", ".", "option">>
NewValue == <<"new_value">>
TestName == <<"test">>

\* the last handler invocation of the latest operation
LastVisit(op) == op.visited[Len(op.visited)]

\* the dispatch of the latest operation ended with an error of a handler
\* that is not UnsupportedOption
DispatchFailed(op) ==
    /\ op.visited # << >>
    /\ ~LastVisit(op).res.ok
    /\ LastVisit(op).res.err # "UnsupportedOption"

\* the dispatch of the latest operation ended with a handler accepting
DispatchAccepted(op) ==
    /\ op.visited # << >>
    /\ LastVisit(op).res.ok

\* the engine was initialized with the extension "test" of the scenarios
\* and the extension holds the given value
TestScenario(exts, eem, v) ==
    /\ eem
    /\ TestName \in DOMAIN exts
    /\ exts[TestName].kind = "test"
    /\ exts[TestName].name = TestName
    /\ exts[TestName].test_option = v

\* the scenario of C1: the extension "test" is registered and
\* write("test.option", "new_value"), the only call made so far, has
\* returned
C1_Scenario ==
    /\ last.op = "write"
    /\ last.key = TestOptionKey
    /\ last.value = NewValue
    /\ calls.n = 1
    /\ engine_eem
    /\ TestName \in DOMAIN EXTENSIONS
    /\ EXTENSIONS[TestName].kind = "test"
    /\ EXTENSIONS[TestName].name = TestName

\* C1 as stated: with extension "test" registered (option "option" holding
\* "default"), after write("test.option", "new_value") the store returns
\* "new_value" for the key and the extension's own value is "new_value".
C1_Original ==
    C1_Scenario
    => ( /\ get_str(CONFIG_STORE, TestOptionKey) = Some(NewValue)
         /\ EXTENSIONS[TestName].test_option = NewValue )

\* C1 amended: in that scenario write("test.option", "new_value") returns
\* Ok, the store returns "new_value" for the key, and the extension keeps
\* its value "default": the key does not start with "probing", so the write
\* is not dispatched to any extension.
C1_WriteUnprefixedKeyStoreOnly ==
    C1_Scenario
    => ( /\ last.res = Ok(<< >>)
         /\ get_str(CONFIG_STORE, TestOptionKey) = Some(NewValue)
         /\ last.wrote
         /\ last.order = << >>
         /\ last.visited = << >>
         /\ EXTENSIONS[TestName].test_option = <<"default">> )

\* C1 witness: the scenario's write has returned on an initialized engine
\* whose extension "test" holds "default"
C1_Witness ==
    /\ C1_Scenario
    /\ TestScenario(EXTENSIONS, engine_eem, <<"default">>)
    /\ get_str(CONFIG_STORE, TestOptionKey) = Some(NewValue)

\* C2: write-through agreement of the store and the owning extension.  For
\* every key "probing." + f that an extension owns (the dispatch of the
\* write ended with an extension accepting (f, x)) and every value x, once
\* write has returned Ok the store holds Text(x) under the key and
\* get_option(f) returns Ok(x).
C2_WriteThroughAgreement ==
    ( /\ last.op = "write"
      /\ last.res.ok
      /\ starts_with(last.key, <<"probing", ".">>)
      /\ DispatchAccepted(last) )
    => ( /\ get(CONFIG_STORE, last.key) = Some(Text(last.value))
         /\ \A iters \in map_iters(EXTENSIONS) :
                get_option(EXTENSIONS, extension_key(last.key), iters).res
                  = Ok(last.value) )

\* C3: when the dispatch of a write of a key in the probing namespace ends
\* with an error other than UnsupportedOption, write returns that error and
\* has not written the config store.
C3_WriteErrorLeavesStore ==
    ( /\ last.op = "write"
      /\ starts_with(last.key, <<"probing">>)
      /\ DispatchFailed(last) )
    => ( /\ last.res = LastVisit(last).res
         /\ ~last.wrote )

\* C3 witness: a write refused by the write-once option of the Python
\* extension, with a store that has no entry for the key
C3_Witness ==
    /\ last.op = "write"
    /\ last.key = <<"probing", ".", "python", ".", "crash_handler">>
    /\ last.res = Err("ReadOnlyOption", <<"crash_handler">>)
    /\ DispatchFailed(last)
    /\ ~contains_key(CONFIG_STORE, last.key)

\* C4: a write of a probing key that no extension accepts returns Ok and the
\* store then returns the value for the key; write never returns
\* UnsupportedOption.
C4_UnclaimedKeyFallsThrough ==
    /\ last.op = "write" => last.res.err # "UnsupportedOption"
    /\ ( /\ last.op = "write"
         /\ starts_with(last.key, <<"probing">>)
         /\ \A i \in 1..Len(last.visited) :
               last.visited[i].res = Err("UnsupportedOption",
                                         last.visited[i].local) )
       => ( /\ last.res = Ok(<< >>)
            /\ last.wrote
            /\ get_str(CONFIG_STORE, last.key) = Some(last.value) )

\* C4 witness: write("probing.test.key", v) on an initialized engine whose
\* extension with namespace "test." was asked and refused the key
C4_Witness ==
    /\ last.op = "write"
    /\ last.key = <<"probing", ".", "test", ".", "key">>
    /\ engine_eem
    /\ last.visited # << >>
    /\ LastVisit(last).res.err = "UnsupportedOption"
    /\ last.res.ok
    /\ get_str(CONFIG_STORE, last.key) = Some(last.value)

\* C5 (as stated): set_option_with_store_update leaves the value in the
\* store under the key when set_option succeeds, and does not write the
\* store when set_option fails.
C5_MirrorOnSuccessOnly ==
    last.op = "set_option_with_store_update"
    => ( /\ last.res.ok <=> DispatchAccepted(last)
         /\ last.res.ok =>
              get(CONFIG_STORE, last.key) = Some(Text(last.value))
         /\ ~last.res.ok => ~last.wrote )

\* C6 as stated: a SQL-level SET routed to the extension dispatch that
\* succeeds is mirrored into the config store, which afterwards returns the
\* written value for the key (under the key the dispatch saw or under the
\* key with the "probing." prefix of the statement).
C6_SqlSetMirrored ==
    ( /\ last.op = "sql_set"
      /\ last.res.ok )
    => \/ get_str(CONFIG_STORE, last.key) = Some(last.value)
       \/ get_str(CONFIG_STORE, <<"probing", ".">> \o last.key)
            = Some(last.value)

\* the position of x in the sequence seq (0 when absent)
Pos(seq, x) ==
    IF \E i \in 1..Len(seq) : seq[i] = x
    THEN CHOOSE i \in 1..Len(seq) : seq[i] = x
    ELSE 0

\* the extension would accept (key, value): its namespace prefixes the key
\* and its set handler returns Ok for the local key
WouldAccept(ext, key, value) ==
    /\ starts_with(key, extract_namespace(ext.name))
    /\ ext_set(ext, trim_start_matches(key, extract_namespace(ext.name)),
               value, TRUE).res.ok

\* the handler invocations of the call op follow its snapshot: they are
\* made in the order of the snapshot, and every extension of the snapshot
\* up to the last one invoked was invoked or passed because of its name
FollowsSnapshot(op) ==
    /\ \A i \in 1..Len(op.visited) : Pos(op.order, op.visited[i].reg) > 0
    /\ \A i, j \in 1..Len(op.visited) :
          i < j => Pos(op.order, op.visited[i].reg)
                     < Pos(op.order, op.visited[j].reg)
    /\ op.visited # << >> =>
          \A n \in 1..Pos(op.order, LastVisit(op).reg) :
              \/ op.order[n] \in op.skipped
              \/ \E i \in 1..Len(op.visited) :
                    op.visited[i].reg = op.order[n]

\* C7: in set_option at most one handler returns Ok and it is the last one
\* invoked; the handlers are invoked in dispatch order, for the extensions
\* whose namespace prefixes the key, and every one before the accepting one
\* answered UnsupportedOption; when a handler accepts, the accepting
\* extension is the only one the call changes, and an extension that
\* answered UnsupportedOption is unchanged.
C7_FirstAcceptWins ==
    last.op = "set_option"
    => LET v == last.visited
       IN  /\ \A i \in 1..Len(v) : v[i].res.ok => i = Len(v)
           /\ last.res.ok <=> DispatchAccepted(last)
           /\ FollowsSnapshot(last)
           /\ \A i \in 1..Len(v) :
                 starts_with(last.key, extract_namespace(v[i].name))
           /\ ~last.disturbed =>
                 \A k \in last.skipped :
                     ~starts_with(last.key,
                                  extract_namespace(EXTENSIONS[k].name))
           /\ \A i \in 1..Len(v) :
                 (~v[i].res.ok /\ v[i].res.err = "UnsupportedOption")
                    => ~v[i].changed
           /\ last.res.ok => \A i \in 1..(Len(v) - 1) : ~v[i].changed
           /\ \A i \in 1..(Len(v) - 1) :
                 v[i].res.err = "UnsupportedOption"

\* C7 witness: two extensions with namespace "test." own "option"; after
\* set_option("test.option", "new_value") the first in dispatch order holds
\* the value and the other one still holds "default"
C7_Witness ==
    /\ last.op = "set_option"
    /\ last.key = TestOptionKey
    /\ last.value = NewValue
    /\ last.res.ok
    /\ LastVisit(last).changed
    /\ DOMAIN EXTENSIONS = { <<"Test", "Extension">>, TestName }
    /\ last.order = << <<"Test", "Extension">>, TestName >>
    /\ LastVisit(last).reg = <<"Test", "Extension">>
    /\ EXTENSIONS[<<"Test", "Extension">>].test_option = NewValue
    /\ EXTENSIONS[TestName].test_option = <<"default">>

\* C8 as stated: when set_option succeeds, the accepting extension was
\* registered before every other extension that would accept the key.
C8_Original ==
    ( /\ last.op = "set_option"
      /\ last.res.ok
      /\ ~last.disturbed )
    => \A k2 \in (DOMAIN EXTENSIONS) \ {LastVisit(last).reg} :
          WouldAccept(EXTENSIONS[k2], last.key, last.value)
            => Pos(reg_order, LastVisit(last).reg) < Pos(reg_order, k2)

\* C8 amended: set_option visits the extensions in ascending order of the
\* keys they are registered under: its snapshot is in that order, and when
\* it succeeds, the accepting extension's registry key is smaller than the
\* registry key of every other extension, registered when the call began,
\* that would accept the key, whatever the order of registration.
C8_RegistryKeyOrder ==
    last.op = "set_option"
    => /\ \A i, j \in 1..Len(last.order) :
             i < j => StrLt(last.order[i], last.order[j])
       /\ FollowsSnapshot(last)
       /\ ( last.res.ok /\ ~last.disturbed ) =>
             \A k2 \in (DOMAIN EXTENSIONS) \ {LastVisit(last).reg} :
                 WouldAccept(EXTENSIONS[k2], last.key, last.value)
                   => StrLt(LastVisit(last).reg, k2)

\* C8 witness: "test" was registered before "TestExtension", both own
\* "test.option", and set_option gave the value to "TestExtension"
C8_Witness ==
    /\ last.op = "set_option"
    /\ last.res.ok
    /\ ~last.disturbed
    /\ reg_order = << TestName, <<"Test", "Extension">> >>
    /\ WouldAccept(EXTENSIONS[TestName], last.key, last.value)
    /\ LastVisit(last).reg = <<"Test", "Extension">>

\* C9 as stated: in set_option and get_option a handler error other than
\* UnsupportedOption ends the dispatch and is its result; when no handler
\* accepts, the result is UnsupportedOption(key).
C9_OnlyUnsupportedIsSkipped ==
    last.op \in { "set_option", "get_option" }
    => LET v == last.visited
       IN  /\ \A i \in 1..Len(v) :
                 ( ~v[i].res.ok /\ v[i].res.err # "UnsupportedOption" )
                   => ( i = Len(v) /\ last.res = v[i].res )
           /\ ( \A i \in 1..Len(v) : v[i].res.err = "UnsupportedOption" )
                => last.res = Err("UnsupportedOption", last.key)

\* C10 (as stated): call invokes only extensions whose name n makes "/n/" a
\* prefix of the path, with the rest of the path; the first result that is
\* Ok or an error other than UnsupportedCall is returned unchanged and ends
\* the dispatch; after UnsupportedCall the dispatch goes on with the next
\* extension; when no extension handles the path the result is
\* CallError(path).
C10_CallDispatch ==
    last.op = "call"
    => LET v == last.visited
           path == last.key
           handled(r) == r.ok \/ r.err \notin { "UnsupportedCall", "JoinError" }
       IN  /\ \A i \in 1..Len(v) :
                 path = <<"/">> \o v[i].name \o <<"/">> \o v[i].local
           /\ \A i \in 1..Len(v) :
                 handled(v[i].res) => ( i = Len(v) /\ last.res = v[i].res )
           /\ FollowsSnapshot(last)
           /\ ( \A i \in 1..Len(v) : ~handled(v[i].res) )
                => last.res = Err("CallError", path)

\* the thread holds the mutex of some extension
holds_ext(t) == \E h \in locks.ext : h[2] = t

\* positions of a dispatch at which it waits for the mutex of an extension
\* or executes under it, inside the extension
InExtensionPcs == ExtLockPcs \cup { "name", "handler", "in_handler" }

\* C11: lock discipline of the registry.  A dispatch (set_option,
\* get_option, options, call) holds the read lock of EXTENSIONS only while
\* it takes its snapshot: whenever a thread holds the registry lock, the
\* dispatch it executes is at the snapshot, neither waiting for the mutex of
\* an extension nor executing a set/get/options/call handler.
C11_RegistryLockDiscipline ==
    \A t \in Threads :
        t \in locks.registry =>
            /\ threads[t] # << >>
            /\ Top(threads[t]).pc = "snapshot"
            /\ Top(threads[t]).pc \notin InExtensionPcs

\* a dispatch has snapshotted a non-empty registry and executes a handler
\* under the extension's mutex while another thread holds the registry lock
\* for its own snapshot
C11_Witness ==
    \E t \in Threads, u \in Threads :
        /\ t # u
        /\ threads[t] # << >>
        /\ Top(threads[t]).pc = "handler"
        /\ Len(Top(threads[t]).snap) > 0
        /\ holds_ext(t)
        /\ t \notin locks.registry
        /\ u \in locks.registry

\* C12 (as stated): no thread holds the write lock of the engine handle
\* while it acquires or waits for the registry lock, and no thread holds the
\* registry lock while it waits for the write lock of the engine handle.
C12_EngineRegistryLockOrder ==
    \A t \in Threads :
        threads[t] # << >> =>
            /\ t \in locks.engine_writer =>
                   Top(threads[t]).pc \notin { "read_lock", "snapshot" }
            /\ t \in locks.registry =>
                   Top(threads[t]).pc # "engine_lock"

\* C13 (as stated): no thread holds the mutex of an extension at a moment
\* at which the handler it runs under that mutex has called back into the
\* dispatch of the extension manager.
C13_NoMutexAcrossNestedDispatch ==
    \A t \in Threads :
        \A j \in 1..Len(threads[t]) :
            ( /\ threads[t][j].op = "call"
              /\ threads[t][j].pc = "in_handler"
              /\ <<threads[t][j].snap[threads[t][j].i], t,
                   threads[t][j].gens[threads[t][j].i]>> \in locks.ext )
            => ~ \E n \in (j + 1)..Len(threads[t]) :
                     threads[t][n].op \in { "set_option", "get_option",
                                            "options", "call" }

\* C14: config round-trip.  A get(k) returns Some(v.to_ele()) for the value
\* v of the latest set(k, v) that no remove, remove_with_prefix or clear
\* followed (so a later set of the key replaced the earlier value), and None
\* for a key that holds no value.
C14_ConfigRoundTrip ==
    store_last.op = "get" =>
        store_last.res =
            IF store_last.key \in DOMAIN store_written
            THEN Some(to_ele(store_written[store_last.key]))
            ELSE None

\* a get on a full store returned the element of the latest set of its key
C14_Witness ==
    /\ store_last.op = "get"
    /\ store_last.key \in DOMAIN store_written
    /\ store_written[store_last.key] = Native("i32", << >>, FALSE, 42)
    /\ store_last.res = Some(I32(42))
    /\ Cardinality(DOMAIN ConfigStore) = MaxStore

\* C15 (as stated): after set(k, v), get_str(k) is Some(s) with s the
\* rendering of v.to_ele() by the Display rules: "nil" for Nil, "True" or
\* "False" for Bool, RFC 3339 for DateTime, decimal digits for numbers, the
\* text itself for Text and Url.
C15_GetStrIsDisplay ==
    ( /\ store_last.op = "get_str"
      /\ store_last.key \in DOMAIN store_written )
    => LET ele == to_ele(store_written[store_last.key])
       IN  store_last.res =
               Some(IF ele.t = "BOOL"
                    THEN IF ele.b THEN <<"True">> ELSE <<"False">>
                    ELSE Display(ele))

\* the keys of the entries are strictly ascending
Ascending(entries) ==
    \A i \in 1..Len(entries), j \in 1..Len(entries) :
        i < j => StrLt(entries[i][1], entries[j][1])

\* C16: get_with_prefix(p) returns exactly the entries of the store whose
\* key starts with p, each with its current value, in lexicographic order
\* of the keys; with the empty prefix it returns the whole store.
C16_PrefixScanExact ==
    store_last.op = "get_with_prefix" =>
        /\ { e[1] : e \in { store_last.entries[i] :
                              i \in 1..Len(store_last.entries) } }
             = { k \in DOMAIN ConfigStore : starts_with(k, store_last.key) }
        /\ \A i \in 1..Len(store_last.entries) :
               store_last.entries[i][2] = ConfigStore[store_last.entries[i][1]]
        /\ Ascending(store_last.entries)
        /\ store_last.key = << >> =>
               Len(store_last.entries) = Cardinality(DOMAIN ConfigStore)

\* a scan for "torch" returned the entry whose key is the prefix itself and
\* left out an entry of the store that lacks the prefix
C16_Witness ==
    /\ store_last.op = "get_with_prefix"
    /\ store_last.key = <<"torch">>
    /\ Len(store_last.entries) = 1
    /\ store_last.entries[1][1] = <<"torch">>
    /\ \E k \in DOMAIN ConfigStore : ~starts_with(k, <<"torch">>)

\* C17 (remove_with_prefix): the step in which remove_with_prefix acts on
\* the store removes exactly the entries whose key starts with the prefix,
\* reports their number and leaves every other entry as it was; and it is
\* one step under the write lock, so that when it returns, every prefixed
\* key that existed when it was called is absent unless another thread has
\* set it again since.
C17_RemovesExactly ==
    \A t \in Threads :
        ( /\ store_threads[t] # << >>
          /\ store_threads[t][1].op = "remove_with_prefix"
          /\ store_threads[t][1].pc = "locked"
          /\ store_threads'[t] # << >>
          /\ store_threads'[t][1].pc = "return" )
        => LET prefixed == { k \in DOMAIN ConfigStore :
                               starts_with(k, store_threads[t][1].key) }
           IN  /\ ConfigStore' = Without_keys(ConfigStore, prefixed)
               /\ store_threads'[t][1].n = Cardinality(prefixed)

C17_Atomic ==
    \A t \in Threads :
        ( /\ store_threads[t] # << >>
          /\ store_threads[t][1].op = "remove_with_prefix"
          /\ store_threads[t][1].pc = "return" )
        => \A k \in store_threads[t][1].pre \ store_threads[t][1].rewritten :
               k \notin DOMAIN ConfigStore

C17_RemoveWithPrefix == [][C17_RemovesExactly]_vars /\ []C17_Atomic

\* remove_with_prefix("") has returned 2 while another thread, which has
\* the lock, is setting one of the removed keys again
C17_Witness ==
    \E t \in Threads, u \in Threads :
        /\ store_threads[t] # << >>
        /\ store_threads[t][1].op = "remove_with_prefix"
        /\ store_threads[t][1].pc = "return"
        /\ store_threads[t][1].n = 2
        /\ store_threads[t][1].rewritten # {}
        /\ store_threads[t][1].pre \ store_threads[t][1].rewritten # {}
        /\ store_threads[u] # << >>
        /\ store_threads[u][1].pc = "inserting"

\* C18 (per-key ordering): the writes of a key act on the store one at a
\* time, in one order; a get called after a write of its key has returned
\* yields the value left by that write or by a later one in that order, and
\* never an entry that a set is still rewriting.
C18_PerKeyOrdering ==
    /\ Cardinality(store_lock.writer) <= 1
    /\ store_lock.writer # {} => store_lock.readers = {}
    /\ \A k \in DOMAIN store_hist :
           Len(store_hist[k].vals) = store_hist[k].applied
    /\ \A t \in Threads :
           ( /\ store_threads[t] # << >>
             /\ store_threads[t][1].op = "get"
             /\ store_threads[t][1].pc = "return" )
           => LET c == store_threads[t][1]
                  h == Hist(store_hist, c.key)
              IN  /\ c.ver >= c.floor
                  /\ c.ver <= h.applied
                  /\ c.res = IF c.ver = 0 THEN None ELSE h.vals[c.ver]
                  /\ c.res # Some(Torn)

\* a get that was called after the second write of its key had returned has
\* read the value of that write
C18_Witness ==
    \E t \in Threads :
        /\ store_threads[t] # << >>
        /\ store_threads[t][1].op = "get"
        /\ store_threads[t][1].pc = "return"
        /\ store_threads[t][1].floor = 2
        /\ store_threads[t][1].res = Some(I32(42))

\* C19 (span identifiers are monotonic): both counters start at 1, so that
\* the identifiers handed out are 1, 2, .. up to the counter, and never go
\* back; of two spans of which the first was created before the second in
\* program order, the first has the smaller span_id, and if both are roots,
\* the smaller trace_id.
C19_Counters ==
    /\ { spans[i].span_id : i \in 1..Len(spans) } = 1..(NEXT_SPAN_ID - 1)
    /\ { spans[i].trace_id : i \in 1..Len(spans) }
         \cup { span_threads[t][1].trace_id :
                  t \in { u \in Threads :
                            /\ span_threads[u] # << >>
                            /\ span_threads[u][1].op = "new_root"
                            /\ span_threads[u][1].pc = "span_id" } }
       = 1..(NEXT_TRACE_ID - 1)
    /\ \A i \in 1..Len(spans) :
           /\ spans[i].span_id >= 1
           /\ spans[i].trace_id >= 1
           /\ spans[i].span_id < NEXT_SPAN_ID
           /\ spans[i].trace_id < NEXT_TRACE_ID
    /\ \A i \in 1..Len(spans), j \in 1..Len(spans) :
           i <= spans[j].begun =>
               /\ spans[i].span_id < spans[j].span_id
               /\ (spans[i].parent_id = None /\ spans[j].parent_id = None)
                      => spans[i].trace_id < spans[j].trace_id

C19_NeverBack ==
    /\ NEXT_TRACE_ID' >= NEXT_TRACE_ID
    /\ NEXT_SPAN_ID' >= NEXT_SPAN_ID

C19_SpanIdsMonotonic == []C19_Counters /\ [][C19_NeverBack]_vars

\* two roots were created one after the other, and so were a root and one
\* of its children, while two roots built at the same time by two threads
\* have their span ids in the other order than their trace ids
C19_Witness ==
    /\ \E i \in 1..Len(spans), j \in 1..Len(spans) :
           /\ i <= spans[j].begun
           /\ spans[i].parent_id = None
           /\ spans[j].parent_id = None
    /\ \E i \in 1..Len(spans), j \in 1..Len(spans) :
           /\ spans[i].parent_id = None
           /\ spans[j].parent_id = None
           /\ spans[i].trace_id < spans[j].trace_id
           /\ spans[i].span_id > spans[j].span_id

\* C20 (child span construction): the span that new_child returns has the
\* trace_id of its parent, parent_id Some(parent.span_id), a span_id that no
\* other span has (the parent least of all), status Active and no end time,
\* and no step of new_child changes NEXT_TRACE_ID.
C20_ChildStep ==
    \A t \in Threads :
        ( /\ span_threads[t] # << >>
          /\ span_threads[t][1].op = "new_child"
          /\ span_threads'[t] = << >> )
        => LET parent == spans[span_threads[t][1].parent]
               child == spans'[Len(spans')]
           IN  /\ Len(spans') = Len(spans) + 1
               /\ child.trace_id = parent.trace_id
               /\ child.parent_id = Some(parent.span_id)
               /\ child.span_id # parent.span_id
               /\ \A i \in 1..Len(spans) : spans[i].span_id # child.span_id
               /\ status(child) = "Active"
               /\ child.end = None
               /\ NEXT_TRACE_ID' = NEXT_TRACE_ID

C20_ChildSpan == [][C20_ChildStep]_vars

\* a child was built for a finished parent after a later root had taken the
\* next trace id
C20_Witness ==
    \E i \in 1..Len(spans), p \in 1..Len(spans) :
        /\ spans[i].parent_id = Some(spans[p].span_id)
        /\ spans[i].trace_id = spans[p].trace_id
        /\ spans[i].trace_id + 1 < NEXT_TRACE_ID
        /\ status(spans[p]) = "Completed"
        /\ status(spans[i]) = "Active"

\* C21 as stated: after finish(), duration() == Some(end - start)
C21_Original ==
    \A i \in 1..Len(spans) :
        spans[i].end # None =>
            /\ is_ended(spans[i])
            /\ status(spans[i]) = "Completed"
            /\ duration(spans[i]) = Some(unwrap(spans[i].end) - spans[i].start)

\* C21 (span lifecycle), amended: a span is Active from its creation until
\* it is finished and Completed ever after (status() is Completed iff an end
\* time is set); once finished, is_ended() is true, duration() is
\* Some(end - start) when end is later than start and Some(0) otherwise, and
\* every add_attr and add_event returns SpanAlreadyClosed and leaves the
\* attributes and the events as they were.
C21_State ==
    \A i \in 1..Len(spans) :
        /\ status(spans[i]) = "Completed" <=> spans[i].end # None
        /\ status(spans[i]) = "Active" <=> spans[i].end = None
        /\ is_ended(spans[i]) <=> spans[i].end # None
        /\ spans[i].end = None => duration(spans[i]) = None
        /\ spans[i].end # None =>
               duration(spans[i]) =
                   Some(IF unwrap(spans[i].end) > spans[i].start
                        THEN unwrap(spans[i].end) - spans[i].start
                        ELSE 0)

C21_Step ==
    /\ Len(spans') > Len(spans) => status(spans'[Len(spans')]) = "Active"
    /\ \A i \in 1..Len(spans) :
           /\ status(spans[i]) = "Completed" => status(spans'[i]) = "Completed"
           /\ (status(spans[i]) = "Active" /\ status(spans'[i]) = "Completed")
                  => /\ span_last'.span = i
                     /\ span_last'.op \in { "finish", "end_error(None)",
                                            "end_error(Some)" }
           /\ ( /\ span_last'.n = span_last.n + 1
                /\ span_last'.span = i
                /\ span_last'.op \in { "add_attr", "add_event" } )
              => IF spans[i].end # None
                 THEN /\ span_last'.res = "SpanAlreadyClosed"
                      /\ spans'[i] = spans[i]
                 ELSE /\ span_last'.res = "Ok"
                      /\ spans'[i] # spans[i]

C21_SpanLifecycle == []C21_State /\ [][C21_Step]_vars

\* a span whose end time is earlier than its start has refused an attribute
C21_Witness ==
    /\ span_last.op = "add_attr"
    /\ span_last.res = "SpanAlreadyClosed"
    /\ spans[span_last.span].start = 1
    /\ spans[span_last.span].end = Some(0)
    /\ duration(spans[span_last.span]) = Some(0)

\* C22 (finish is idempotent): no call on a span that has ended changes its
\* end time or any other field of it.
C22_Step ==
    \A i \in 1..Len(spans) : spans[i].end # None => spans'[i] = spans[i]

C22_FinishIdempotent == [][C22_Step]_vars

\* C23 (end_error): on an active span, end_error(Some(msg)) appends the
\* attribute error.message = msg and leaves the span Completed; on an active
\* span, end_error(None) leaves the attributes as they were and the span
\* Completed.
C23_Step ==
    \A i \in 1..Len(spans) :
        ( /\ span_last'.n = span_last.n + 1
          /\ span_last'.span = i
          /\ spans[i].end = None )
        => /\ span_last'.op = "end_error(Some)" =>
                 /\ spans'[i].attrs =
                        Append(spans[i].attrs,
                               [key |-> "error.message",
                                value |-> Text(<<"nosuch">>)])
                 /\ status(spans'[i]) = "Completed"
           /\ span_last'.op = "end_error(None)" =>
                 /\ spans'[i].attrs = spans[i].attrs
                 /\ status(spans'[i]) = "Completed"

C23_EndError == [][C23_Step]_vars

\* end_error(Some(msg)) has completed a span that had an attribute already
C23_Witness ==
    /\ span_last.op = "end_error(Some)"
    /\ status(spans[span_last.span]) = "Completed"
    /\ Len(spans[span_last.span].attrs) = 2
    /\ spans[span_last.span].attrs[2].key = "error.message"

\* the rows of the buffer of one type
rows_of(record_type) ==
    SelectSeq(buffer_rows(trace_event),
              LAMBDA row : row.record_type = record_type)

\* C24 (trace capture): with the trace buffer present, the creation of a
\* span adds exactly one span_start row for it, each finish exactly one span_end row, each successful
\* add_event exactly one event row, and nothing else adds a row; after a
\* root "work", its child "step", an event "mid" on the child and one finish
\* of each, the buffer holds two span_start rows, two span_end rows and one
\* event row named "mid", the rows of the child carry the span_id of the
\* root as parent_id, and all rows carry one trace_id.
C24_Step ==
    ( trace_event # None /\ span_last'.n = span_last.n + 1 ) =>
        LET i == span_last'.span
            op == span_last'.op
            before == buffer_rows(trace_event)
            after == buffer_rows(trace_event')
            added == SubSeq(after, Len(before) + 1, Len(after))
        IN  /\ trace_event' # None
            /\ SubSeq(after, 1, Len(before)) = before
            /\ op \in { "new_root", "new_child" } =>
                   /\ Len(added) = 1
                   /\ added[1].record_type = "span_start"
                   /\ added[1].span_id = spans'[i].span_id
                   /\ added[1].trace_id = spans'[i].trace_id
                   /\ added[1].parent_id = spans'[i].parent_id
            /\ op \in { "finish", "end_error(None)", "end_error(Some)" } =>
                   /\ Len(added) = 1
                   /\ added[1].record_type = "span_end"
                   /\ added[1].span_id = spans'[i].span_id
                   /\ added[1].trace_id = spans'[i].trace_id
            /\ (op = "add_event" /\ span_last'.res = "Ok") =>
                   /\ Len(added) = 1
                   /\ added[1].record_type = "event"
                   /\ added[1].name = "mid"
                   /\ added[1].span_id = spans'[i].span_id
            /\ (op = "add_attr"
                  \/ (op = "add_event" /\ span_last'.res # "Ok")) =>
                   added = << >>

TraceCaptureScenario ==
    /\ span_last.n = 5
    /\ Len(spans) = 2
    /\ spans[1].name = "work"
    /\ spans[2].name = "step"
    /\ spans[1].events = << >>
    /\ Len(spans[2].events) = 1
    /\ spans[1].end # None
    /\ spans[2].end # None

C24_Scenario ==
    ( TraceCaptureScenario /\ trace_event # None ) =>
        /\ Len(rows_of("span_start")) = 2
        /\ Len(rows_of("span_end")) = 2
        /\ Len(rows_of("event")) = 1
        /\ rows_of("event")[1].name = "mid"
        /\ \A k \in 1..Len(buffer_rows(trace_event)) :
               LET row == buffer_rows(trace_event)[k]
               IN  /\ row.trace_id = spans[1].trace_id
                   /\ row.span_id = spans[2].span_id
                          => row.parent_id = Some(spans[1].span_id)
                   /\ row.span_id = spans[1].span_id
                          => row.parent_id = None

\* C24: the step property of the rows at every step and the scenario of the
\* rows in every state
C24_TraceCapture == [][C24_Step]_vars /\ []C24_Scenario

\* the rows a query produces
RECURSIVE total_rows(_)
total_rows(batches) ==
    IF batches = << >> THEN 0
    ELSE num_rows(Head(batches)) + total_rows(Tail(batches))

\* the arrow types arrow_array_to_seq converts
KnownTypes ==
    { "Int32", "Int64", "Float32", "Float64", "Utf8", "Boolean",
      "Timestamp(Microsecond)", "Timestamp(Nanosecond)",
      "Timestamp(Millisecond)", "Timestamp(Second)" }

\* C25: once enable(P) has returned Ok for a table plugin P with namespace
\* n and name t, n.t resolves to P's table: the context holds P under
\* (n, t); a query SELECT * FROM n.t planned after that returns a dataframe
\* with the names of P's fields and, in every column of a type the
\* conversion knows, the values of P's batches, and a table listing planned
\* after that has the row (n, t); a query of a table for which no call of
\* enable was begun when it was planned returns an error.
C25_Visibility ==
    /\ \A p \in enabled_tables :
          /\ p.namespace \in DOMAIN context
          /\ p.name \in DOMAIN context[p.namespace]
          /\ context[p.namespace][p.name] = p
    /\ (engine_last.op = "query" /\ engine_last.arg.kind = "scan") =>
          LET q == engine_last.arg
              ps == { p \in engine_last.enabled :
                        p.namespace = q.namespace /\ p.name = q.table }
          IN  /\ <<q.namespace, q.table>> \notin engine_last.known =>
                    ~engine_last.res.ok
              /\ \A p \in ps :
                    /\ engine_last.res.ok
                    /\ engine_last.res.val # None
                    /\ LET df == unwrap(engine_last.res.val)
                       IN  /\ df.names = [j \in 1..Len(p.schema) |->
                                             p.schema[j].name]
                           /\ Len(df.cols) = Len(p.schema)
                           /\ \A j \in 1..Len(p.schema) :
                                 p.schema[j].type \in KnownTypes =>
                                    df.cols[j].vals
                                        = concat_column(p.batches, j)
    /\ (engine_last.op = "query" /\ engine_last.arg.kind = "show tables") =>
          /\ engine_last.res.ok
          /\ engine_last.res.val # None
          /\ LET df == unwrap(engine_last.res.val)
             IN  \A p \in engine_last.enabled :
                    \E i \in 1..Seq_len(df.cols[2]) :
                       /\ df.cols[2].vals[i] = p.namespace
                       /\ df.cols[3].vals[i] = p.name

\* C26: async_query returns None exactly when the query produces no row,
\* the scan of an enabled table without rows included, and a dataframe it
\* returns has at least one row.
C26_EmptyAbsent ==
    (engine_last.op = "query" /\ engine_last.res.ok) =>
        /\ (engine_last.res.val = None)
               <=> (total_rows(engine_last.produced) = 0)
        /\ engine_last.res.val # None =>
              \E j \in DOMAIN (unwrap(engine_last.res.val).cols) :
                 Seq_len(unwrap(engine_last.res.val).cols[j]) > 0

\* C27: a dataframe async_query returns has as many columns as names, and
\* its columns all have the same number of rows, whatever their arrow
\* types.
C27_Rectangular ==
    (engine_last.op = "query" /\ engine_last.res.ok
        /\ engine_last.res.val # None) =>
        LET df == unwrap(engine_last.res.val)
        IN  /\ Len(df.names) = Len(df.cols)
            /\ \A i, j \in DOMAIN df.cols :
                  Seq_len(df.cols[i]) = Seq_len(df.cols[j])

\* C28: the handles of an engine, each a clone of another, see the same
\* plugin index, and the table of a plugin in the index of one is known to
\* the context of all.
C28_SharedPlugins ==
    /\ \A h1, h2 \in 1..Len(engines) :
          engines[h1].plugins = engines[h2].plugins
    /\ \A p \in enabled_tables :
          /\ p.namespace \in DOMAIN context
          /\ p.name \in DOMAIN context[p.namespace]

\* C29: i64::from_ele returns the value of every Ele::I32 and Ele::I64;
\* i32::from_ele(Ele::I64(x)) returns x exactly when
\* i32::MIN <= x <= i32::MAX, and the wrong-element-type error otherwise:
\* it never returns a wrapped value.
C29_IntegerBounds ==
    LET ele == conv_last.ele
        res == conv_last.res
    IN  /\ (conv_last.op = "i64::from_ele" /\ ele.t \in {"I32", "I64"}) =>
              /\ res.ok
              /\ res.val.h = ele.h
              /\ res.val.n = ele.n
        /\ (conv_last.op = "i32::from_ele" /\ ele.t = "I64") =>
              /\ res.ok <=> ele.h = 0
              /\ res.ok => (res.val.h = 0 /\ res.val.n = ele.n)
              /\ ~res.ok => res.err = "WrongElementType"

\* i32::from_ele has refused i32::MAX + 1 = 2^32 + i32::MIN
C29_Witness ==
    /\ conv_last.op = "i32::from_ele"
    /\ conv_last.ele = I64_wide(1, i32_MIN)
    /\ ~conv_last.res.ok

\* C30, one step: a setter of crash_handler or monitoring called while the
\* option holds a value returns ReadOnlyOption and leaves the value; called
\* with Maybe::Nothing while the option is unset, it returns
\* InvalidOptionValue and leaves the option unset.
C30_Step ==
    (last'.op \in {"set_crash_handler", "set_monitoring"}) =>
        LET option == last'.key[1]
            before == EXTENSIONS[python][option]
            after == EXTENSIONS'[python][option]
        IN  /\ before # None =>
                  /\ last'.res = Err("ReadOnlyOption", last'.key)
                  /\ after = before
            /\ (before = None /\ last'.value = <<>>) =>
                  /\ last'.res = Err("InvalidOptionValue", last'.key)
                  /\ after = None

\* C30: the options crash_handler and monitoring of the Python extension
\* are write-once: every set after the option holds a value returns
\* ReadOnlyOption and the value stays, and a set of an absent value on an
\* unset option returns InvalidOptionValue and the option stays unset.
C30_WriteOnce == [][C30_Step]_vars

\* monitoring holds "test" and a later set of "new_value" has been refused
C30_Witness ==
    /\ python \in DOMAIN EXTENSIONS
    /\ last.op = "set_monitoring"
    /\ last.value = <<"new_value">>
    /\ last.res = Err("ReadOnlyOption", <<"monitoring">>)
    /\ EXTENSIONS[python].monitoring = Some(<<"test">>)

\* C33: whatever the interleaving of new_root and new_child on the threads,
\* no two spans have the same span_id, and no two root spans, built or
\* holding their trace id already, have the same trace_id.
C33_UniqueIds ==
    /\ \A i, j \in 1..Len(spans) :
          i # j => spans[i].span_id # spans[j].span_id
    /\ \A i, j \in 1..Len(spans) :
          (i # j /\ spans[i].parent_id = None /\ spans[j].parent_id = None)
              => spans[i].trace_id # spans[j].trace_id
    /\ \A t \in Threads :
          ( /\ span_threads[t] # << >>
            /\ span_threads[t][1].op = "new_root"
            /\ span_threads[t][1].pc = "span_id" )
          => /\ \A i \in 1..Len(spans) :
                   spans[i].parent_id = None
                       => spans[i].trace_id # span_threads[t][1].trace_id
             /\ \A u \in Threads \ {t} :
                   ( /\ span_threads[u] # << >>
                     /\ span_threads[u][1].op = "new_root"
                     /\ span_threads[u][1].pc = "span_id" )
                   => span_threads[u][1].trace_id
                          # span_threads[t][1].trace_id

\* two threads were inside new_root at the same time, and a child was built
\* by another thread than its parent
C33_Witness ==
    /\ \E i, j \in 1..Len(spans) :
          /\ i # j
          /\ spans[i].parent_id = None
          /\ spans[j].parent_id = None
          /\ spans[i].thread_id # spans[j].thread_id
          /\ spans[i].begun = spans[j].begun
    /\ \E i, j \in 1..Len(spans) :
          /\ spans[j].parent_id = Some(spans[i].span_id)
          /\ spans[i].thread_id # spans[j].thread_id

\* C34: there is one config store: config::get(k) and ConfigStore::get(k)
\* return the same for every key, whichever API wrote it, and a get of one
\* API has returned what the other API holds.
C34_OneStore ==
    /\ \A k \in SharedKeys :
          get(CONFIG_STORE, k) = ConfigStore_get(ConfigStore, k)
    /\ last.op = "get" =>
          last.res.val = ConfigStore_get(ConfigStore, last.key)
    /\ store_last.op = "get" =>
          store_last.res = get(CONFIG_STORE, store_last.key)

\* C35: the local key a handler of set_option / get_option receives is the
\* key without the namespace prefix of its extension, removed once: for the
\* namespace N and the key N + l the handler sees l, also when l starts
\* with N.
C35_LocalKey ==
    (last.op \in {"set_option", "get_option"}) =>
        \A i \in 1..Len(last.visited) :
            LET v == last.visited[i]
                namespace == extract_namespace(v.name)
            IN  /\ starts_with(last.key, namespace)
                /\ v.local = DropPrefix(last.key, Len(namespace))

\* C36, one step: a setter of the Python extension that returns an error
\* leaves the extension as it was: crash_handler and monitoring are still
\* unset after a failed installation, and the extension a failed
\* set_disabled names is still enabled.
C36_Step ==
    ( /\ last'.op \in {"set_crash_handler", "set_monitoring", "set_enabled",
                       "set_disabled"}
      /\ ~last'.res.ok )
    => EXTENSIONS'[python] = EXTENSIONS[python]

\* C36: a failed option set leaves the Python extension unchanged.
C36_FailedSetUnchanged == [][C36_Step]_vars

\* C32: once all concurrent calls of set_option_with_store_update, or all
\* concurrent calls of config::write, on the option of an extension have
\* returned, the config store holds under the key of the calls the value
\* the extension holds.
C32_Lockstep ==
    ( /\ \A t \in Threads : threads[t] = << >>
      /\ calls.kinds \in { {"set_option_with_store_update"}, {"write"} } )
    => get(CONFIG_STORE, IF calls.kinds = {"write"}
                         THEN <<"probing", ".", "test", ".", "option">>
                         ELSE <<"test", ".", "option">>)
         = Some(Text(EXTENSIONS[<<"test">>].test_option))

\* C39: in every QueryResponseDto the server produces, success is true
\* exactly when the payload is no error payload; an engine reply with the
\* payload Data::Error is never reported with success true.
C39_ResponseConsistent ==
    dto_last.dto =>
        /\ dto_last.success <=> dto_last.payload.t # "Error"
        /\ ( /\ dto_last.op = "convert_engine_response_to_dto"
             /\ dto_last.data.t = "Error" ) => ~dto_last.success

\* C37: on every thread the span stack is the sequence of the spans entered
\* and not yet exited on that thread, in entry order (so that __exit__
\* removes the entry of the span that exits and current_span() is again the
\* span that was current before the matching __enter__); a span made by
\* _span_raw is a child of the top of its thread's stack, or a root span
\* when that stack is empty.
C37_StackIsEntered ==
    /\ \A t \in Threads : SPAN_STACK[t] = span_entered[t]
    /\ span_last.op = "_span_raw" =>
           LET s == spans[span_last.span]
               top == current_span(s.thread_id)
           IN  IF top = None THEN s.parent_id = None
               ELSE s.parent_id = Some(spans[unwrap(top)].span_id)

C38_Step ==
    \A i \in 1..Len(spans) :
        spans[i].end # None =>
            /\ spans'[i].attrs = spans[i].attrs
            /\ spans'[i].events = spans[i].events

\* C38: once a span has an end time, no step of the core API or of the
\* Python binding (add_attr, add_event, _set_initial_attrs, end, end_error)
\* changes its attribute list or its event list.
C38_EndedImmutable == [][C38_Step]_vars

RECURSIVE tree_places(_, _)
\* every place of a forest as a pair <<span id, id of the span whose
\* children list holds it>>, or -2 for a span at top level
tree_places(forest, holder) ==
    IF forest = << >> THEN << >>
    ELSE << <<forest[1].span_id, holder>> >>
         \o tree_places(forest[1].children, forest[1].span_id)
         \o tree_places(Tail(forest), holder)

\* the span_start rows of the latest request
tree_starts ==
    LET start(row) == row.record_type = "span_start"
    IN  SelectSeq(tree_last.events, start)

\* C40: in the forest get_span_tree returns, every span with a span_start
\* row appears exactly once: in the children list of its parent whenever
\* the parent's span_start row is present, at whatever depth, and at top
\* level only when it has no parent or the parent's row is missing; the
\* result is the same for every iteration order of the hash map.
C40_TreeAssembly ==
    tree_last.done =>
    LET places == tree_places(tree_last.result, -2)
        present == { tree_starts[k].span_id : k \in DOMAIN tree_starts }
    IN  /\ Len(places) = Len(tree_starts)
        /\ \A k \in DOMAIN tree_starts :
               LET row == tree_starts[k]
                   want == IF row.parent_id # None
                              /\ unwrap(row.parent_id) \in present
                           THEN unwrap(row.parent_id) ELSE -2
               IN  \E j \in DOMAIN places :
                       places[j] = <<row.span_id, want>>
        /\ \A order \in Orders(present) :
               get_span_tree(tree_last.events, order) = tree_last.result

\* a table is resolvable by queries when the schema the catalog holds for
\* its namespace has it
resolvable(key) ==
    /\ key[1] \in DOMAIN catalog
    /\ key[2] \in DOMAIN providers[catalog[key[1]]].tables

\* C31: once all calls of enable have returned Ok, every table enabled is
\* resolvable by queries through the one schema the catalog holds for its
\* namespace, whether the namespace existed before or not and whatever the
\* interleaving of the calls.
C31_NothingLost ==
    ( /\ \A t \in Threads : engine_tasks[t].pc = "idle"
      /\ \A t \in Threads : ~engine_tasks[t].failed ) =>
        \A t \in Threads :
            \A key \in engine_tasks[t].ok :
                key # plugin_key(NamespacePlugin) => resolvable(key)
====
